---- MODULE Spec2Model ----
(***************************************************************************)
(* The AtomSpace hypergraph store (opencog/atomspace/atomspace.hpp), the   *)
(* atom identity model (opencog/atomspace/atom.hpp) and the pattern        *)
(* matcher (opencog/pattern/pattern_match.hpp).                            *)
(*                                                                         *)
(* A Handle is a shared_ptr<Atom>; it is modelled by the uuid of the atom  *)
(* object it points to, NULL being the empty handle.  `heap` holds every   *)
(* atom object that is still owned by somebody (the caller or the store).  *)
(***************************************************************************)
EXTENDS Integers, Sequences, FiniteSets, TLC

VARIABLES heap, counter, m_atoms, m_by_type, m_by_uuid, m_incoming, last,
          m_mutex, pc, loc, returned,
          m_queue, m_cancelled, m_condition, served

vars == <<heap, counter, m_atoms, m_by_type, m_by_uuid, m_incoming, last,
          m_mutex, pc, loc, returned,
          m_queue, m_cancelled, m_condition, served>>
store == <<m_atoms, m_by_type, m_by_uuid, m_incoming>>
\* a ConcurrentQueue (opencog/cogutil/concurrent_queue.hpp): its members,
\* and the items in the order its push and pop calls were served
queue == <<m_queue, m_cancelled, m_condition, served>>
\* the threads of the concurrent specifications: the lock, each thread's
\* position and locals, and the add calls that have returned
threads == <<m_mutex, pc, loc, returned, queue>>

\* ---- bounds -------------------------------------------------------------
\* number of atom objects constructed in one run (values of the uuid counter)
MaxUuid == 3
\* number of lookups by a temporary key (get_node) made by the matcher
MaxLookups == 1
\* the invocation at which a match callback asks to stop, at the latest
MaxStop == 2
\* nested to_string calls the thread's stack holds; one more overflows it
MaxDepth == 4
\* characters of a name pattern given to find_nodes
MaxPattern == 3
\* TruthValue calls applied in a row to a constructed truth value
MaxOps == 2
\* items pushed onto the ConcurrentQueue
MaxItems == 3

\* ---- program constants (atom_types.hpp) ----------------------------------
ATOM == 0
NODE == 1
CONCEPT_NODE == 10
PREDICATE_NODE == 11
VARIABLE_NODE == 13
LIST_LINK == 200
INHERITANCE_LINK == 220

NULL == 0
AtomTypes == {CONCEPT_NODE, PREDICATE_NODE, VARIABLE_NODE, LIST_LINK, INHERITANCE_LINK}

\* inputs of the store specification
NodeTypes == {CONCEPT_NODE}
LinkTypes == {LIST_LINK}
Names == {"a", "b"}

\* ---- atom.hpp -----------------------------------------------------------
\* Node(type, name)
Node(t, n) == [type |-> t, is_node |-> TRUE, name |-> n, outgoing |-> <<>>]
\* Link(type, outgoing)
Link(t, out) == [type |-> t, is_node |-> FALSE, name |-> "", outgoing |-> out]

\* Node::operator== and Link::operator== on the atom objects r1 and r2,
\* hp being the objects their outgoing handles point to.
RECURSIVE AtomEq(_, _, _)
\* an equality that compares the outgoing atoms of two links as a set
AtomEq_unordered(hp, r1, r2) ==
    /\ r1.type = r2.type
    /\ r1.is_node = r2.is_node
    /\ IF r1.is_node
         THEN r1.name = r2.name
         ELSE /\ Len(r1.outgoing) = Len(r2.outgoing)
              /\ {IF r1.outgoing[i] = NULL THEN NULL ELSE hp[r1.outgoing[i]] : i \in 1..Len(r1.outgoing)}
                   = {IF r2.outgoing[i] = NULL THEN NULL ELSE hp[r2.outgoing[i]] : i \in 1..Len(r2.outgoing)}
AtomEq(hp, r1, r2) ==
    /\ r1.type = r2.type
    /\ r1.is_node = r2.is_node
    /\ IF r1.is_node
         THEN r1.name = r2.name
         ELSE /\ Len(r1.outgoing) = Len(r2.outgoing)
              /\ \A i \in 1..Len(r1.outgoing) :
                    LET a == r1.outgoing[i]
                        b == r2.outgoing[i]
                    IN  IF a = NULL \/ b = NULL
                          THEN a = b
                          ELSE AtomEq(hp, hp[a], hp[b])

\* AtomEqual::operator() on two handles
AtomEqual(hp, a, b) ==
    IF a = NULL \/ b = NULL THEN a = b ELSE AtomEq(hp, hp[a], hp[b])

\* ---- AtomSet = unordered_set<Handle, AtomHash, AtomEqual> ----------------
\* a lookup by the address of the object instead of its structure
SetFind_by_pointer(hp, S, h) == {x \in S : x = h}
\* find(h): the stored handles equal to h (AtomHash is consistent with
\* AtomEqual, so the bucket search finds every equal element)
SetFind(hp, S, h) == {x \in S : AtomEqual(hp, x, h)}
\* insert(h): no effect when an equal element is present
SetInsert(hp, S, h) == IF SetFind(hp, S, h) # {} THEN S ELSE S \cup {h}
\* erase(h): erase by key
SetErase(hp, S, h) == S \ SetFind(hp, S, h)

\* unordered_map<UUID, AtomSet>::operator[]: an absent bucket is empty
Bucket(inc, u) == IF u \in DOMAIN inc THEN inc[u] ELSE {}

\* the non-null targets of a link object
Targets(r) == {r.outgoing[i] : i \in 1..Len(r.outgoing)} \ {NULL}

\* ---- atomspace.hpp: queries ----------------------------------------------
size == Cardinality(m_atoms)
contains(h) == h # NULL /\ SetFind(heap, m_atoms, h) # {}
get_atom(u) == IF u \in DOMAIN m_by_uuid THEN m_by_uuid[u] ELSE NULL
get_atoms_by_type(t) == IF t \in DOMAIN m_by_type THEN m_by_type[t] ELSE {}
get_incoming(h) == IF h = NULL THEN {} ELSE Bucket(m_incoming, h)
\* a get_atoms_by_type that honours the subclasses flag for the base type NODE
get_atoms_by_type_expanding(t, subclasses) ==
    IF subclasses /\ t = NODE
      THEN UNION {get_atoms_by_type(ty) : ty \in {CONCEPT_NODE, PREDICATE_NODE, VARIABLE_NODE}}
      ELSE get_atoms_by_type(t)
\* get_atoms_by_type(type, subclasses): the flag is not used
get_atoms_by_type_flag(t, subclasses) == get_atoms_by_type(t)
\* size(type)
size_of_type(t) == IF t \in DOMAIN m_by_type THEN Cardinality(m_by_type[t]) ELSE 0
get_incoming_by_type(h, t) == {l \in get_incoming(h) : heap[l].type = t}

\* ---- atomspace.hpp: lookups by key ---------------------------------------
\* the record of a lookup: the key (or the uuid) asked for and the handle
\* returned
LookupCall(op, key, u, ret) ==
    [op |-> op, arg |-> NULL, key |-> key, ret |-> ret, ok |-> ret # NULL,
     pvars |-> << >>, results |-> {}, uuid |-> u]

\* m_atoms.find(temp) on a temporary built from the key: *it or nullptr
FindKey(key) ==
    LET it == {x \in m_atoms : AtomEq(heap, heap[x], key)}
    IN  IF it # {} THEN CHOOSE x \in it : TRUE ELSE NULL

\* a lookup that stores its temporary when no equal atom is found
get_node_inserting(t, n) ==
    /\ counter' = counter + 1
    /\ IF FindKey(Node(t, n)) # NULL
         THEN /\ UNCHANGED <<heap, store>>
              /\ last' = LookupCall("get_node", Node(t, n), NULL, FindKey(Node(t, n)))
         ELSE /\ heap' = (counter :> Node(t, n)) @@ heap
              /\ m_atoms' = m_atoms \cup {counter}
              /\ m_by_type' = [m_by_type EXCEPT ![t] = @ \cup {counter}]
              /\ m_by_uuid' = (counter :> counter) @@ m_by_uuid
              /\ UNCHANGED m_incoming
              /\ last' = LookupCall("get_node", Node(t, n), NULL, counter)
\* get_node(type, name): create_node consumes a uuid, the temporary dies
get_node(t, n) ==
    /\ counter' = counter + 1
    /\ UNCHANGED <<heap, store>>
    /\ last' = LookupCall("get_node", Node(t, n), NULL, FindKey(Node(t, n)))

\* get_link(type, outgoing)
get_link(t, out) ==
    /\ counter' = counter + 1
    /\ UNCHANGED <<heap, store>>
    /\ last' = LookupCall("get_link", Link(t, out), NULL, FindKey(Link(t, out)))

\* ---- atomspace.hpp: mutations --------------------------------------------
\* the record of the call that was made last: its name, the handle passed,
\* the atom object the handle points to, and what the call returned
Call(op, arg, key, ret, ok) ==
    [op |-> op, arg |-> arg, key |-> key, ret |-> ret, ok |-> ok, pvars |-> << >>, results |-> {}]
NoKey == Node(ATOM, "")

\* add_atom, the four index updates of an insertion
InsertPrimary(hp, S, u) == SetInsert(hp, S, u)
InsertByType(hp, byType, u) == [byType EXCEPT ![hp[u].type] = SetInsert(hp, @, u)]
InsertByUuid(byUuid, u) == (u :> u) @@ byUuid
InsertIncoming(hp, inc, u) ==
    LET T == IF hp[u].is_node THEN {} ELSE Targets(hp[u])
    IN  [x \in DOMAIN inc \cup T |-> IF x \in T THEN SetInsert(hp, Bucket(inc, x), u) ELSE inc[x]]

\* remove_atom, the four index updates of a removal; h is the handle passed
\* and `it` what m_atoms.find(h) found
\* a type index that erases the handle passed rather than the atom equal to it
EraseByType_passed(hp, byType, h) == [byType EXCEPT ![hp[h].type] = @ \ {h}]
EraseByType(hp, byType, h) == [byType EXCEPT ![hp[h].type] = SetErase(hp, @, h)]
EraseByUuid(byUuid, h) == [x \in DOMAIN byUuid \ {h} |-> byUuid[x]]
EraseIncoming(hp, inc, h) ==
    LET T == IF hp[h].is_node THEN {} ELSE Targets(hp[h])
    IN  [x \in DOMAIN inc \cup T |-> IF x \in T THEN SetErase(hp, Bucket(inc, x), h) ELSE inc[x]]
\* a removal that cascades to the atoms the removed link points to
ErasePrimary_cascade(hp, S, it) == S \ (it \cup UNION {Targets(hp[x]) : x \in it})
ErasePrimary(hp, S, it) == S \ it

\* add_atom(u) past its null check; hp is the heap with the object of u in
\* it, and keep says whether the caller still owns that object when an equal
\* atom is found (add_node and add_link drop their temporary).
AddFound(op, hp, u, keep) ==
    /\ heap' = IF keep THEN hp ELSE heap
    /\ UNCHANGED store
    /\ last' = Call(op, u, hp[u], CHOOSE x \in SetFind(hp, m_atoms, u) : TRUE, TRUE)

AddNew(op, hp, u) ==
    /\ heap' = hp
    /\ m_atoms' = InsertPrimary(hp, m_atoms, u)
    /\ m_by_type' = InsertByType(hp, m_by_type, u)
    /\ m_by_uuid' = InsertByUuid(m_by_uuid, u)
    /\ m_incoming' = InsertIncoming(hp, m_incoming, u)
    /\ last' = Call(op, u, hp[u], u, TRUE)

AddBody(op, hp, u, keep) ==
    IF SetFind(hp, m_atoms, u) # {} THEN AddFound(op, hp, u, keep) ELSE AddNew(op, hp, u)

create_node(t, n) ==
    /\ counter <= MaxUuid
    /\ counter' = counter + 1
    /\ heap' = (counter :> Node(t, n)) @@ heap
    /\ UNCHANGED store
    /\ last' = Call("create_node", NULL, Node(t, n), counter, TRUE)

\* a constructor that hands the link a handle to itself
create_link_self(t, out) ==
    /\ counter <= MaxUuid
    /\ counter' = counter + 1
    /\ heap' = (counter :> Link(t, <<counter>>)) @@ heap
    /\ UNCHANGED store
    /\ last' = Call("create_link", NULL, Link(t, <<counter>>), counter, TRUE)
create_link(t, out) ==
    /\ counter <= MaxUuid
    /\ counter' = counter + 1
    /\ heap' = (counter :> Link(t, out)) @@ heap
    /\ UNCHANGED store
    /\ last' = Call("create_link", NULL, Link(t, out), counter, TRUE)

add_node(t, n) ==
    /\ counter <= MaxUuid
    /\ counter' = counter + 1
    /\ AddBody("add_node", (counter :> Node(t, n)) @@ heap, counter, FALSE)

add_link(t, out) ==
    /\ counter <= MaxUuid
    /\ counter' = counter + 1
    /\ AddBody("add_link", (counter :> Link(t, out)) @@ heap, counter, FALSE)

\* an add_atom without the null check: the empty handle reaches the set
add_atom_unchecked(h) ==
    /\ UNCHANGED counter
    /\ IF h = NULL
         THEN /\ UNCHANGED <<heap, m_by_type, m_by_uuid, m_incoming>>
              /\ m_atoms' = m_atoms \cup {NULL}
              /\ last' = Call("add_atom", NULL, NoKey, NULL, FALSE)
         ELSE AddBody("add_atom", heap, h, TRUE)

add_atom(h) ==
    /\ UNCHANGED counter
    /\ IF h = NULL
         THEN /\ UNCHANGED <<heap, store>>
              /\ last' = Call("add_atom", NULL, NoKey, NULL, FALSE)
         ELSE AddBody("add_atom", heap, h, TRUE)

\* a removal that touches the uuid index before it has looked the atom up
RemoveMiss_erasing(h) ==
    /\ UNCHANGED <<m_atoms, m_by_type, m_incoming>>
    /\ m_by_uuid' = EraseByUuid(m_by_uuid, h)
    /\ last' = Call("remove_atom", h, IF h = NULL THEN NoKey ELSE heap[h], NULL, FALSE)

\* remove_atom(h) returning false: h is null or nothing equal is stored
RemoveMiss(h) ==
    /\ UNCHANGED store
    /\ last' = Call("remove_atom", h, IF h = NULL THEN NoKey ELSE heap[h], NULL, FALSE)

\* remove_atom(h) returning true
RemoveHit(h) ==
    LET it == SetFind(heap, m_atoms, h)
    IN  /\ m_by_type' = EraseByType(heap, m_by_type, h)
        /\ m_by_uuid' = EraseByUuid(m_by_uuid, h)
        /\ m_incoming' = EraseIncoming(heap, m_incoming, h)
        /\ m_atoms' = ErasePrimary(heap, m_atoms, it)
        /\ last' = Call("remove_atom", h, heap[h], CHOOSE x \in it : TRUE, TRUE)

remove_atom(h) ==
    /\ UNCHANGED <<heap, counter>>
    /\ IF h = NULL \/ SetFind(heap, m_atoms, h) = {} THEN RemoveMiss(h) ELSE RemoveHit(h)

clear ==
    /\ UNCHANGED <<heap, counter>>
    /\ m_atoms' = {}
    /\ m_by_type' = [t \in AtomTypes |-> {}]
    /\ m_by_uuid' = << >>
    /\ m_incoming' = << >>
    /\ last' = Call("clear", NULL, NoKey, NULL, TRUE)

\* ---- the store specification ---------------------------------------------
Handles == DOMAIN heap
\* outgoing sequences of arity 0, 1 and 2 over the handles the caller holds;
\* a null entry is tried at arity 1
OutSeqs == {<< >>} \cup [1..1 -> Handles \cup {NULL}] \cup [1..2 -> Handles]

Threads == {1, 2, 3}
\* the roles of the threads where mutations and queries are mixed
Writers == {1, 2}
Readers == {3}
NoCall == Call("none", NULL, NoKey, NULL, FALSE)

InitStore ==
    /\ m_atoms = {}
    /\ m_by_type = [t \in AtomTypes |-> {}]
    /\ m_by_uuid = << >>
    /\ m_incoming = << >>

InitThreads ==
    /\ m_mutex = [writer |-> NULL, readers |-> {}]
    /\ pc = [t \in Threads |-> "idle"]
    /\ loc = [t \in Threads |-> NoCall]
    /\ returned = {}

\* ConcurrentQueue(): an empty queue, not cancelled, nobody waiting
InitQueue ==
    /\ m_queue = << >>
    /\ m_cancelled = FALSE
    /\ m_condition = [waiting |-> {}, notified |-> {}]
    /\ served = [pushed |-> << >>, popped |-> << >>]

Init ==
    /\ heap = << >>
    /\ counter = 1
    /\ InitStore
    /\ InitThreads
    /\ InitQueue
    /\ last = Call("init", NULL, NoKey, NULL, TRUE)

CreateNode == (\E t \in NodeTypes, n \in Names : create_node(t, n)) /\ UNCHANGED threads
CreateLink == (\E t \in LinkTypes, out \in OutSeqs : create_link(t, out)) /\ UNCHANGED threads
AddNode == (\E t \in NodeTypes, n \in Names : add_node(t, n)) /\ UNCHANGED threads
AddLink == (\E t \in LinkTypes, out \in OutSeqs : add_link(t, out)) /\ UNCHANGED threads
AddAtom == (\E h \in Handles \cup {NULL} : add_atom(h)) /\ UNCHANGED threads
RemoveAtom == (\E h \in Handles \cup {NULL} : remove_atom(h)) /\ UNCHANGED threads
Clear == clear /\ UNCHANGED threads

Next == CreateNode \/ CreateLink \/ AddNode \/ AddLink \/ AddAtom \/ RemoveAtom \/ Clear

Spec == Init /\ [][Next]_vars

\* ---- the store under concurrent callers ----------------------------------
\* locks that exclude nobody
CanLockUnique_unguarded == TRUE
CanLockShared_unguarded == TRUE
\* std::unique_lock<std::shared_mutex>: granted when nobody holds the mutex
CanLockUnique == m_mutex.writer = NULL /\ m_mutex.readers = {}
\* std::shared_lock<std::shared_mutex>: granted when no writer holds it
CanLockShared == m_mutex.writer = NULL

Goto(t, l) == pc' = [pc EXCEPT ![t] = l]
\* the handles the threads share: those that add calls have returned
Published == {c.ret : c \in returned}
Drop(hp, u) == [x \in DOMAIN hp \ {u} |-> hp[x]]

\* add_node / add_link: the atom is constructed before add_atom is entered
T_add_node(t) ==
    /\ pc[t] = "idle" /\ counter <= MaxUuid
    /\ \E ty \in NodeTypes, n \in Names :
          /\ heap' = (counter :> Node(ty, n)) @@ heap
          /\ loc' = [loc EXCEPT ![t] = Call("add_node", counter, Node(ty, n), NULL, FALSE)]
    /\ counter' = counter + 1
    /\ Goto(t, "add_lock")
    /\ UNCHANGED <<store, last, m_mutex, returned>>
    /\ UNCHANGED queue

T_add_link(t) ==
    /\ pc[t] = "idle" /\ counter <= MaxUuid
    /\ \E ty \in LinkTypes, out \in [1..1 -> Published] :
          /\ heap' = (counter :> Link(ty, out)) @@ heap
          /\ loc' = [loc EXCEPT ![t] = Call("add_link", counter, Link(ty, out), NULL, FALSE)]
    /\ counter' = counter + 1
    /\ Goto(t, "add_lock")
    /\ UNCHANGED <<store, last, m_mutex, returned>>
    /\ UNCHANGED queue

\* add_atom: std::unique_lock lock(m_mutex)
T_add_lock(t) ==
    /\ pc[t] = "add_lock" /\ CanLockUnique
    /\ m_mutex' = [m_mutex EXCEPT !.writer = t]
    /\ Goto(t, "add_find")
    /\ UNCHANGED <<heap, counter, store, last, loc, returned>>
    /\ UNCHANGED queue

\* add_atom: m_atoms.find(atom), and the return of the stored atom
T_add_find(t) ==
    /\ pc[t] = "add_find"
    /\ LET found == SetFind(heap, m_atoms, loc[t].arg)
       IN  IF found # {}
             THEN /\ loc' = [loc EXCEPT ![t].ret = CHOOSE x \in found : TRUE, ![t].ok = TRUE]
                  /\ Goto(t, "add_unlock")
             ELSE /\ Goto(t, "add_primary")
                  /\ UNCHANGED loc
    /\ UNCHANGED <<heap, counter, store, last, m_mutex, returned>>
    /\ UNCHANGED queue

T_add_primary(t) ==
    /\ pc[t] = "add_primary"
    /\ m_atoms' = InsertPrimary(heap, m_atoms, loc[t].arg)
    /\ Goto(t, "add_by_type")
    /\ UNCHANGED <<heap, counter, m_by_type, m_by_uuid, m_incoming, last, m_mutex, loc, returned>>
    /\ UNCHANGED queue

T_add_by_type(t) ==
    /\ pc[t] = "add_by_type"
    /\ m_by_type' = InsertByType(heap, m_by_type, loc[t].arg)
    /\ Goto(t, "add_by_uuid")
    /\ UNCHANGED <<heap, counter, m_atoms, m_by_uuid, m_incoming, last, m_mutex, loc, returned>>
    /\ UNCHANGED queue

T_add_by_uuid(t) ==
    /\ pc[t] = "add_by_uuid"
    /\ m_by_uuid' = InsertByUuid(m_by_uuid, loc[t].arg)
    /\ Goto(t, "add_incoming")
    /\ UNCHANGED <<heap, counter, m_atoms, m_by_type, m_incoming, last, m_mutex, loc, returned>>
    /\ UNCHANGED queue

T_add_incoming(t) ==
    /\ pc[t] = "add_incoming"
    /\ m_incoming' = InsertIncoming(heap, m_incoming, loc[t].arg)
    /\ loc' = [loc EXCEPT ![t].ret = loc[t].arg, ![t].ok = TRUE]
    /\ Goto(t, "add_unlock")
    /\ UNCHANGED <<heap, counter, m_atoms, m_by_type, m_by_uuid, last, m_mutex, returned>>
    /\ UNCHANGED queue

\* the return of add_atom and of add_node / add_link: the lock is released
\* and a temporary that was not inserted dies
T_add_unlock(t) ==
    /\ pc[t] = "add_unlock"
    /\ m_mutex' = [m_mutex EXCEPT !.writer = IF @ = t THEN NULL ELSE @]
    /\ heap' = IF loc[t].ret = loc[t].arg THEN heap ELSE Drop(heap, loc[t].arg)
    /\ returned' = returned \cup {[key |-> loc[t].key, ret |-> loc[t].ret]}
    /\ loc' = [loc EXCEPT ![t] = NoCall]
    /\ Goto(t, "idle")
    /\ UNCHANGED <<counter, store, last>>
    /\ UNCHANGED queue

\* remove_atom(h) on a handle the thread holds
T_remove_atom(t) ==
    /\ pc[t] = "idle"
    /\ \E h \in Published :
          loc' = [loc EXCEPT ![t] = Call("remove_atom", h, heap[h], NULL, FALSE)]
    /\ Goto(t, "rm_lock")
    /\ UNCHANGED <<heap, counter, store, last, m_mutex, returned>>
    /\ UNCHANGED queue

T_rm_lock(t) ==
    /\ pc[t] = "rm_lock" /\ CanLockUnique
    /\ m_mutex' = [m_mutex EXCEPT !.writer = t]
    /\ Goto(t, "rm_find")
    /\ UNCHANGED <<heap, counter, store, last, loc, returned>>
    /\ UNCHANGED queue

T_rm_find(t) ==
    /\ pc[t] = "rm_find"
    /\ LET it == SetFind(heap, m_atoms, loc[t].arg)
       IN  IF it = {}
             THEN /\ Goto(t, "rm_unlock")
                  /\ UNCHANGED loc
             ELSE /\ loc' = [loc EXCEPT ![t].ret = CHOOSE x \in it : TRUE]
                  /\ Goto(t, "rm_by_type")
    /\ UNCHANGED <<heap, counter, store, last, m_mutex, returned>>
    /\ UNCHANGED queue

T_rm_by_type(t) ==
    /\ pc[t] = "rm_by_type"
    /\ m_by_type' = EraseByType(heap, m_by_type, loc[t].arg)
    /\ Goto(t, "rm_by_uuid")
    /\ UNCHANGED <<heap, counter, m_atoms, m_by_uuid, m_incoming, last, m_mutex, loc, returned>>
    /\ UNCHANGED queue

T_rm_by_uuid(t) ==
    /\ pc[t] = "rm_by_uuid"
    /\ m_by_uuid' = EraseByUuid(m_by_uuid, loc[t].arg)
    /\ Goto(t, "rm_incoming")
    /\ UNCHANGED <<heap, counter, m_atoms, m_by_type, m_incoming, last, m_mutex, loc, returned>>
    /\ UNCHANGED queue

T_rm_incoming(t) ==
    /\ pc[t] = "rm_incoming"
    /\ m_incoming' = EraseIncoming(heap, m_incoming, loc[t].arg)
    /\ Goto(t, "rm_primary")
    /\ UNCHANGED <<heap, counter, m_atoms, m_by_type, m_by_uuid, last, m_mutex, loc, returned>>
    /\ UNCHANGED queue

T_rm_primary(t) ==
    /\ pc[t] = "rm_primary"
    /\ m_atoms' = ErasePrimary(heap, m_atoms, {loc[t].ret})
    /\ loc' = [loc EXCEPT ![t].ok = TRUE]
    /\ Goto(t, "rm_unlock")
    /\ UNCHANGED <<heap, counter, m_by_type, m_by_uuid, m_incoming, last, m_mutex, returned>>
    /\ UNCHANGED queue

T_rm_unlock(t) ==
    /\ pc[t] = "rm_unlock"
    /\ m_mutex' = [m_mutex EXCEPT !.writer = IF @ = t THEN NULL ELSE @]
    /\ loc' = [loc EXCEPT ![t] = NoCall]
    /\ Goto(t, "idle")
    /\ UNCHANGED <<heap, counter, store, last, returned>>
    /\ UNCHANGED queue

\* clear()
T_clear(t) ==
    /\ pc[t] = "idle" /\ CanLockUnique
    /\ m_mutex' = [m_mutex EXCEPT !.writer = t]
    /\ loc' = [loc EXCEPT ![t] = Call("clear", NULL, NoKey, NULL, FALSE)]
    /\ Goto(t, "clear_atoms")
    /\ UNCHANGED <<heap, counter, store, last, returned>>
    /\ UNCHANGED queue

T_clear_atoms(t) ==
    /\ pc[t] = "clear_atoms"
    /\ m_atoms' = {}
    /\ Goto(t, "clear_by_type")
    /\ UNCHANGED <<heap, counter, m_by_type, m_by_uuid, m_incoming, last, m_mutex, loc, returned>>
    /\ UNCHANGED queue

T_clear_by_type(t) ==
    /\ pc[t] = "clear_by_type"
    /\ m_by_type' = [ty \in AtomTypes |-> {}]
    /\ Goto(t, "clear_by_uuid")
    /\ UNCHANGED <<heap, counter, m_atoms, m_by_uuid, m_incoming, last, m_mutex, loc, returned>>
    /\ UNCHANGED queue

T_clear_by_uuid(t) ==
    /\ pc[t] = "clear_by_uuid"
    /\ m_by_uuid' = << >>
    /\ Goto(t, "clear_incoming")
    /\ UNCHANGED <<heap, counter, m_atoms, m_by_type, m_incoming, last, m_mutex, loc, returned>>
    /\ UNCHANGED queue

T_clear_incoming(t) ==
    /\ pc[t] = "clear_incoming"
    /\ m_incoming' = << >>
    /\ m_mutex' = [m_mutex EXCEPT !.writer = IF @ = t THEN NULL ELSE @]
    /\ loc' = [loc EXCEPT ![t] = NoCall]
    /\ Goto(t, "idle")
    /\ UNCHANGED <<heap, counter, m_atoms, m_by_type, m_by_uuid, last, returned>>
    /\ UNCHANGED queue

\* a query (get_atom, get_node, get_atoms_by_type, get_incoming, contains,
\* size, get_stats): std::shared_lock lock(m_mutex), the reads, the release
T_query(t) ==
    /\ pc[t] = "idle" /\ CanLockShared
    /\ m_mutex' = [m_mutex EXCEPT !.readers = @ \cup {t}]
    /\ loc' = [loc EXCEPT ![t] = Call("query", NULL, NoKey, NULL, FALSE)]
    /\ Goto(t, "reading")
    /\ UNCHANGED <<heap, counter, store, last, returned>>
    /\ UNCHANGED queue

T_query_return(t) ==
    /\ pc[t] = "reading"
    /\ m_mutex' = [m_mutex EXCEPT !.readers = @ \ {t}]
    /\ loc' = [loc EXCEPT ![t] = NoCall]
    /\ Goto(t, "idle")
    /\ UNCHANGED <<heap, counter, store, last, returned>>
    /\ UNCHANGED queue

AddSteps(t) ==
    \/ T_add_lock(t) \/ T_add_find(t) \/ T_add_primary(t) \/ T_add_by_type(t)
    \/ T_add_by_uuid(t) \/ T_add_incoming(t) \/ T_add_unlock(t)

\* threads that only call add_node
NextAddNode == \E t \in Threads : T_add_node(t) \/ AddSteps(t)
SpecAddNode == Init /\ [][NextAddNode]_vars

\* threads that call mutations and queries
NextThreads ==
    \/ \E t \in Readers : T_query(t) \/ T_query_return(t)
    \/ \E t \in Writers :
        \/ T_add_node(t) \/ T_add_link(t) \/ AddSteps(t)
        \/ T_remove_atom(t) \/ T_rm_lock(t) \/ T_rm_find(t) \/ T_rm_by_type(t)
        \/ T_rm_by_uuid(t) \/ T_rm_incoming(t) \/ T_rm_primary(t) \/ T_rm_unlock(t)
        \/ T_clear(t) \/ T_clear_atoms(t) \/ T_clear_by_type(t) \/ T_clear_by_uuid(t)
        \/ T_clear_incoming(t)
SpecThreads == Init /\ [][NextThreads]_vars

\* ---- pattern_match.hpp ---------------------------------------------------
\* pat->is_node() && pat->type() == AtomTypes::VARIABLE_NODE
IsVariable(hp, h) == h # NULL /\ hp[h].is_node /\ hp[h].type = VARIABLE_NODE

\* what `*it->second != *cand_out` can do when the variable is bound to an
\* empty handle: the dereference is undefined
UBOutcomes == {"crash", "equal", "unequal"}

Unified(st, b) == [status |-> st, bindings |-> b]

\* match_recursive, link branch: the loop over the positions i, i+1, ... of
\* the pattern link pat and the candidate cand, b being local_bindings
RECURSIVE Unify(_, _, _, _, _, _)
Unify(hp, pat, cand, i, b, ub) ==
    IF i > Len(pat.outgoing) THEN Unified("match", b)
    ELSE
      LET pat_out == pat.outgoing[i]
          cand_out == IF i <= Len(cand.outgoing) THEN cand.outgoing[i] ELSE NULL
      IN  IF IsVariable(hp, pat_out)
            THEN LET var_name == hp[pat_out].name
                 IN  IF var_name \in DOMAIN b
                       THEN IF cand_out = NULL THEN Unified("fail", b)
                            ELSE IF b[var_name] = NULL
                              THEN CASE ub = "crash" -> Unified("crash", b)
                                     [] ub = "equal" -> Unify(hp, pat, cand, i + 1, b, ub)
                                     [] OTHER -> Unified("fail", b)
                            ELSE IF AtomEqual(hp, b[var_name], cand_out)
                              THEN Unify(hp, pat, cand, i + 1, b, ub)
                              ELSE Unified("fail", b)
                       ELSE Unify(hp, pat, cand, i + 1, (var_name :> cand_out) @@ b, ub)
          ELSE IF pat_out # NULL /\ cand_out # NULL
            THEN IF AtomEqual(hp, pat_out, cand_out)
                   THEN Unify(hp, pat, cand, i + 1, b, ub)
                   ELSE Unified("fail", b)
          ELSE IF pat_out # NULL \/ cand_out # NULL
            THEN Unified("fail", b)
          ELSE Unify(hp, pat, cand, i + 1, b, ub)

\* the unification of pat with cand dereferences an empty handle
HitsUB(hp, pat, cand) == Unify(hp, pat, cand, 1, << >>, "crash").status = "crash"

\* one callback invocation: the candidate it comes from and the bindings
Result(c, b) == [cand |-> c, bindings |-> b]
MatchCall(pv, body, ok, res) ==
    [op |-> "match", arg |-> body, key |-> IF body = NULL THEN NoKey ELSE heap[body],
     ret |-> NULL, ok |-> ok, pvars |-> pv, results |-> res]

\* candidates taken without consulting the declared type
VariableCandidates_any(pv, var_name) == m_atoms
\* match_recursive, variable branch: the candidates of an unbound variable
VariableCandidates(pv, var_name) ==
    LET var_type == IF var_name \in DOMAIN pv THEN pv[var_name] ELSE ATOM
    IN  IF var_type = ATOM THEN m_atoms ELSE get_atoms_by_type(var_type)

\* match_recursive, link branch: the candidates of a link pattern
LinkCandidates(pat) ==
    {c \in get_atoms_by_type(pat.type) : Len(heap[c].outgoing) = Len(pat.outgoing)}

\* the outcomes the build can produce for a match of this body: more than
\* one only when a candidate makes the link branch dereference an empty handle
UBChoices(body) ==
    IF body # NULL /\ ~heap[body].is_node
         /\ \E c \in LinkCandidates(heap[body]) : HitsUB(heap, heap[body], heap[c])
      THEN UBOutcomes ELSE {"crash"}

Outcome(ok, res) == [ok |-> ok, results |-> res]

\* what match collects for the variables pv and the body, the undefined
\* comparison (if reached) behaving as ub says
MatchOutcome(pv, body, ub) ==
    IF body = NULL THEN Outcome(TRUE, {})
    ELSE IF IsVariable(heap, body)
      THEN Outcome(TRUE, {Result(c, (heap[body].name :> c)) :
                             c \in VariableCandidates(pv, heap[body].name)})
    ELSE IF heap[body].is_node
      THEN Outcome(TRUE, {Result(c, << >>) :
                             c \in {x \in m_atoms : AtomEq(heap, heap[x], heap[body])}})
    ELSE LET out == [c \in LinkCandidates(heap[body]) |->
                       Unify(heap, heap[body], heap[c], 1, << >>, ub)]
         IN  IF \E c \in DOMAIN out : out[c].status = "crash"
               THEN Outcome(FALSE, {})
               ELSE Outcome(TRUE, {Result(c, out[c].bindings) :
                                     c \in {x \in DOMAIN out : out[x].status = "match"}})

\* get_node constructs a temporary node for the lookup of a node body
MatchTemporaries(body) ==
    IF body # NULL /\ heap[body].is_node /\ ~IsVariable(heap, body) THEN 1 ELSE 0

\* PatternMatcher::match(pattern) with the collecting callback; pv is
\* Pattern::variables() and body Pattern::body()
match(pv, body) ==
    /\ UNCHANGED <<heap, store>>
    /\ counter' = counter + MatchTemporaries(body)
    /\ \E ub \in UBChoices(body) :
          last' = MatchCall(pv, body, MatchOutcome(pv, body, ub).ok,
                            MatchOutcome(pv, body, ub).results)

\* a MatchCallback that returns false (stop) on its stop-th invocation and
\* true before it; stop = 0 is a callback that always returns true
Callback(stop, calls) == calls # stop

\* the candidates a loop `for (candidate : C) if (!callback(..)) return false`
\* has visited when it ends: all of them, or the stop that came first in the
\* iteration order of the unordered container (any stop of them)
Visited(C, stop) ==
    IF stop = 0 \/ stop >= Cardinality(C)
      THEN {C}
      ELSE {D \in SUBSET C : Cardinality(D) = stop}

\* the iteration orders of a HandleSeq copied out of an unordered_set
Orders(C) ==
    {o \in [1..Cardinality(C) -> C] : \A i, j \in DOMAIN o : o[i] = o[j] => i = j}

\* match_recursive, link branch: the loop over the candidates order[i],
\* order[i+1], ... with the callback invoked on each match; acc holds the
\* number of invocations and the bindings handed to the callback so far
RECURSIVE LinkLoop(_, _, _, _, _, _, _)
LinkLoop(hp, pat, order, i, stop, ub, acc) ==
    IF i > Len(order) THEN acc
    ELSE
      LET u == Unify(hp, pat, hp[order[i]], 1, << >>, ub)
          hit == [acc EXCEPT !.calls = @ + 1,
                             !.results = @ \cup {[cand |-> order[i], bindings |-> u.bindings]}]
      IN  CASE u.status = "crash" -> [acc EXCEPT !.ok = FALSE]
            [] u.status = "fail" -> LinkLoop(hp, pat, order, i + 1, stop, ub, acc)
            [] OTHER -> IF Callback(stop, hit.calls)
                          THEN LinkLoop(hp, pat, order, i + 1, stop, ub, hit)
                          ELSE hit

MatchCallbackCall(pv, body, stop, acc) ==
    [op |-> "match_callback", arg |-> body, key |-> IF body = NULL THEN NoKey ELSE heap[body],
     ret |-> NULL, ok |-> acc.ok, pvars |-> pv, results |-> acc.results,
     stop |-> stop, calls |-> acc.calls]

\* a lookup that takes any stored atom of the pattern's type
NodeMatch_by_type(pat) ==
    IF get_atoms_by_type(pat.type) # {} THEN CHOOSE x \in get_atoms_by_type(pat.type) : TRUE ELSE NULL
\* match_recursive, node branch: m_atomspace.get_node(pat->type(), pat->name())
NodeMatch(pat) == FindKey(Node(pat.type, pat.name))

\* PatternMatcher::match(pattern, callback)
match_callback(pv, body, stop) ==
    /\ UNCHANGED <<heap, store>>
    /\ IF body = NULL
         THEN /\ UNCHANGED counter
              /\ last' = MatchCallbackCall(pv, body, stop, [ok |-> TRUE, calls |-> 0, results |-> {}])
       ELSE IF IsVariable(heap, body)
         THEN /\ UNCHANGED counter
              /\ \E D \in Visited(VariableCandidates(pv, heap[body].name), stop) :
                    last' = MatchCallbackCall(pv, body, stop,
                               [ok |-> TRUE, calls |-> Cardinality(D),
                                results |-> {Result(c, (heap[body].name :> c)) : c \in D}])
       ELSE IF heap[body].is_node
         THEN /\ counter' = counter + 1
              /\ LET found == NodeMatch(heap[body])
                 IN  last' = MatchCallbackCall(pv, body, stop,
                                [ok |-> TRUE, calls |-> IF found # NULL THEN 1 ELSE 0,
                                 results |-> IF found # NULL THEN {Result(found, << >>)} ELSE {}])
       ELSE /\ UNCHANGED counter
            /\ \E ub \in IF \E c \in LinkCandidates(heap[body]) : HitsUB(heap, heap[body], heap[c])
                            THEN UBOutcomes ELSE {"crash"} :
                 \E order \in Orders(LinkCandidates(heap[body])) :
                    last' = MatchCallbackCall(pv, body, stop,
                               LinkLoop(heap, heap[body], order, 1, stop, ub,
                                        [ok |-> TRUE, calls |-> 0, results |-> {}]))

\* ---- pattern_match.hpp: finders ------------------------------------------
FindCall(op, t, atom, ok, res) ==
    [op |-> op, arg |-> atom, key |-> IF atom = NULL THEN NoKey ELSE heap[atom],
     ret |-> NULL, ok |-> ok, pvars |-> << >>, results |-> res, type |-> t]

\* find_links_to(link_type, target)
find_links_to(t, target) ==
    /\ UNCHANGED <<heap, counter, store>>
    /\ last' = FindCall("find_links_to", t, target, TRUE, get_incoming_by_type(target, t))

\* find_links_containing(link_type, atom): `out && *out == *atom` is
\* evaluated for the outgoing entries of the links of the type, up to the
\* first equal one; with an empty atom, *atom is undefined
find_links_containing(t, atom) ==
    LET links == get_atoms_by_type(t)
        nonempty == {l \in links : Targets(heap[l]) # {}}
    IN  /\ UNCHANGED <<heap, counter, store>>
        /\ IF atom = NULL /\ nonempty # {}
             THEN \E ub \in UBOutcomes :
                    last' = FindCall("find_links_containing", t, atom, ub # "crash",
                                     IF ub = "equal" THEN nonempty ELSE {})
             ELSE last' = FindCall("find_links_containing", t, atom, TRUE,
                             {l \in links : \E x \in Targets(heap[l]) : AtomEqual(heap, x, atom)})

\* ---- the matcher specification -------------------------------------------
\* atoms the caller has constructed: two concepts, a predicate, a variable,
\* links over them (one with an empty handle, as a failed lookup leaves it),
\* a nested link, and three pattern templates
PMHeap ==
    << Node(CONCEPT_NODE, "Animal"), Node(CONCEPT_NODE, "Dog"),
       Node(PREDICATE_NODE, "p"), Node(VARIABLE_NODE, "X"),
       Link(INHERITANCE_LINK, <<2, 1>>), Link(INHERITANCE_LINK, <<3, 1>>),
       Link(INHERITANCE_LINK, <<1, 1>>), Link(INHERITANCE_LINK, <<NULL, 1>>),
       Link(LIST_LINK, <<5>>),
       Link(INHERITANCE_LINK, <<4, 1>>), Link(INHERITANCE_LINK, <<4, 4>>),
       Link(LIST_LINK, <<10>>) >>

\* the declarations tried: none, X of any type, X a ConceptNode
PMVars == {<< >>, ("X" :> ATOM), ("X" :> CONCEPT_NODE)}

\* the atoms of PMHeap that the caller inserts and removes: the concepts
\* and the links without variables
PMStorable == {1, 2, 5, 6, 7, 8, 9}

InitPM ==
    /\ heap = PMHeap
    /\ counter = Len(PMHeap) + 1
    /\ InitStore
    /\ InitThreads
    /\ InitQueue
    /\ last = Call("init", NULL, NoKey, NULL, TRUE)

PMAddAtom == (\E h \in PMStorable : add_atom(h)) /\ UNCHANGED threads
PMRemoveAtom == (\E h \in PMStorable : remove_atom(h)) /\ UNCHANGED threads
PMMatch ==
    /\ counter <= Len(PMHeap) + MaxLookups
    /\ \E pv \in PMVars, body \in Handles \cup {NULL} : match(pv, body)
    /\ UNCHANGED threads

NextPM == PMAddAtom \/ PMRemoveAtom \/ PMMatch
SpecPM == InitPM /\ [][NextPM]_vars

\* ---- the matcher called with a callback that may stop the search ---------
\* the atoms of PMHeap stored here: the concepts and three InheritanceLinks,
\* one of them with an empty handle
CancelStorable == {1, 2, 5, 7, 8}
\* the bodies tried: none, a node, a variable, and two links with variables
CancelBodies == {NULL, 2, 4, 10, 11}

CancelAddAtom == (\E h \in CancelStorable : add_atom(h)) /\ UNCHANGED threads
CancelRemoveAtom == (\E h \in CancelStorable : remove_atom(h)) /\ UNCHANGED threads
CancelMatch ==
    /\ counter <= Len(PMHeap) + MaxLookups
    /\ \E pv \in PMVars, body \in CancelBodies, stop \in 0..MaxStop :
          match_callback(pv, body, stop)
    /\ UNCHANGED threads

NextCancel == CancelAddAtom \/ CancelRemoveAtom \/ CancelMatch
SpecCancel == InitPM /\ [][NextCancel]_vars

\* ---- for_each / find_atoms under concurrent callers ----------------------
\* the threads that traverse and mutate, and the atoms of PMHeap they store
TraverseThreads == {1, 2}
TraverseStorable == {1, 5, 7}

\* the frame of a for_each call: the atoms stored when it took the lock and
\* the atoms the visitor has been invoked on
ForEachFrame(entry, visited) == [op |-> "for_each", entry |-> entry, visited |-> visited]

\* add_atom(h) on a handle the thread holds, up to the lock request
T_add_atom(t) ==
    /\ pc[t] = "idle"
    /\ \E h \in TraverseStorable :
          loc' = [loc EXCEPT ![t] = Call("add_atom", h, heap[h], NULL, FALSE)]
    /\ Goto(t, "add_lock")
    /\ UNCHANGED <<heap, counter, store, last, m_mutex, returned>>
    /\ UNCHANGED queue

\* for_each (and find_atoms): std::shared_lock lock(m_mutex), held until the
\* function returns
T_for_each(t) ==
    /\ pc[t] = "idle" /\ CanLockShared
    /\ m_mutex' = [m_mutex EXCEPT !.readers = @ \cup {t}]
    /\ loc' = [loc EXCEPT ![t] = ForEachFrame(m_atoms, {})]
    /\ Goto(t, "visiting")
    /\ UNCHANGED <<heap, counter, store, last, returned>>
    /\ UNCHANGED queue

\* for (const auto& atom : m_atoms) func(atom), with a visitor that does
\* not call the AtomSpace
T_visit(t) ==
    /\ pc[t] = "visiting"
    /\ \E x \in m_atoms \ loc[t].visited :
          loc' = [loc EXCEPT ![t].visited = @ \cup {x}]
    /\ UNCHANGED <<heap, counter, store, last, m_mutex, pc, returned>>
    /\ UNCHANGED queue

\* func(atom) with a visitor that calls add_atom(atom) or remove_atom(atom)
\* on the same AtomSpace: the call is entered on the visiting thread, which
\* still holds the shared lock, and goes on to request the unique lock
T_visit_mutating(t) ==
    /\ pc[t] = "visiting"
    /\ \E x \in m_atoms \ loc[t].visited :
          \/ /\ loc' = [loc EXCEPT ![t] = Call("add_atom", x, heap[x], NULL, FALSE)]
             /\ Goto(t, "add_lock")
          \/ /\ loc' = [loc EXCEPT ![t] = Call("remove_atom", x, heap[x], NULL, FALSE)]
             /\ Goto(t, "rm_lock")
    /\ UNCHANGED <<heap, counter, store, last, m_mutex, returned>>
    /\ UNCHANGED queue

\* the end of the loop: the shared lock is released
T_for_each_return(t) ==
    /\ pc[t] = "visiting"
    /\ m_atoms \ loc[t].visited = {}
    /\ m_mutex' = [m_mutex EXCEPT !.readers = @ \ {t}]
    /\ loc' = [loc EXCEPT ![t] = NoCall]
    /\ Goto(t, "idle")
    /\ UNCHANGED <<heap, counter, store, last, returned>>
    /\ UNCHANGED queue

RemoveSteps(t) ==
    \/ T_rm_lock(t) \/ T_rm_find(t) \/ T_rm_by_type(t) \/ T_rm_by_uuid(t)
    \/ T_rm_incoming(t) \/ T_rm_primary(t) \/ T_rm_unlock(t)

NextForEach ==
    \E t \in TraverseThreads :
        \/ T_add_atom(t) \/ AddSteps(t)
        \/ T_remove_atom(t) \/ RemoveSteps(t)
        \/ T_for_each(t) \/ T_visit(t) \/ T_visit_mutating(t) \/ T_for_each_return(t)
SpecForEach == InitPM /\ [][NextForEach]_vars

\* ---- match under concurrent callers --------------------------------------
\* the bodies matched: the variable X and the link Inh(X, Animal)
ThreadBodies == {4, 10}

\* the frame of a match call: the body, the store as it was when match was
\* called, the candidates copied out of the index, those the loop has gone
\* through, and the bindings handed to the callback (stored: whether the
\* candidate was in the store when the callback received them)
MatchFrame(body, at_call) ==
    [op |-> "match", body |-> body, at_call |-> at_call,
     candidates |-> {}, done |-> {}, delivered |-> {}]

\* the mutex after a matcher's index access, were its shared lock kept
MatchIndexLock_held(mutex, t) == [mutex EXCEPT !.readers = @ \cup {t}]
\* the mutex after get_atoms_by_type / for_each returned to the matcher: the
\* shared_lock taken inside the accessor is released at its return
MatchIndexLock(mutex, t) == [mutex EXCEPT !.readers = @ \ {t}]

\* match(pattern, callback) is entered; no lock is taken yet
T_match(t) ==
    /\ pc[t] = "idle"
    /\ \E body \in ThreadBodies : loc' = [loc EXCEPT ![t] = MatchFrame(body, m_atoms)]
    /\ Goto(t, "match_index")
    /\ UNCHANGED <<heap, counter, store, last, m_mutex, returned>>
    /\ UNCHANGED queue

\* match_recursive: the candidates are copied out of the store under the
\* shared lock of for_each (variable body) or get_atoms_by_type (link body)
T_match_index(t) ==
    /\ pc[t] = "match_index" /\ CanLockShared
    /\ m_mutex' = MatchIndexLock(m_mutex, t)
    /\ loc' = [loc EXCEPT ![t].candidates =
                  IF IsVariable(heap, loc[t].body)
                    THEN VariableCandidates(<< >>, heap[loc[t].body].name)
                    ELSE LinkCandidates(heap[loc[t].body])]
    /\ Goto(t, "match_deliver")
    /\ UNCHANGED <<heap, counter, store, last, returned>>
    /\ UNCHANGED queue

\* match_recursive: one round of the candidate loop, the callback being
\* invoked (and returning true) when the candidate matches
T_match_deliver(t) ==
    /\ pc[t] = "match_deliver"
    /\ \E c \in loc[t].candidates \ loc[t].done :
          LET body == loc[t].body
              u == IF IsVariable(heap, body)
                     THEN Unified("match", (heap[body].name :> c))
                     ELSE Unify(heap, heap[body], heap[c], 1, << >>, "crash")
              hit == [cand |-> c, bindings |-> u.bindings, stored |-> c \in m_atoms]
          IN  /\ loc' = [loc EXCEPT ![t].done = @ \cup {c},
                                    ![t].delivered = IF u.status = "match" THEN @ \cup {hit} ELSE @]
              /\ Goto(t, IF u.status = "crash" THEN "crashed" ELSE "match_deliver")
    /\ UNCHANGED <<heap, counter, store, last, m_mutex, returned>>
    /\ UNCHANGED queue

T_match_return(t) ==
    /\ pc[t] = "match_deliver"
    /\ loc[t].candidates \ loc[t].done = {}
    /\ loc' = [loc EXCEPT ![t] = NoCall]
    /\ Goto(t, "idle")
    /\ UNCHANGED <<heap, counter, store, last, m_mutex, returned>>
    /\ UNCHANGED queue

NextMatchThreads ==
    \E t \in TraverseThreads :
        \/ T_add_atom(t) \/ AddSteps(t)
        \/ T_remove_atom(t) \/ RemoveSteps(t)
        \/ T_match(t) \/ T_match_index(t) \/ T_match_deliver(t) \/ T_match_return(t)
SpecMatchThreads == InitPM /\ [][NextMatchThreads]_vars

\* ---- links over the same atoms -------------------------------------------
\* atoms the caller has constructed: two concepts, the ListLink over them in
\* both orders, a second object for the first ListLink (what a repeated
\* add_link constructs), an InheritanceLink and a ListLink of arity 1
LinkHeap ==
    << Node(CONCEPT_NODE, "a"), Node(CONCEPT_NODE, "b"),
       Link(LIST_LINK, <<1, 2>>), Link(LIST_LINK, <<2, 1>>), Link(LIST_LINK, <<1, 2>>),
       Link(INHERITANCE_LINK, <<1, 2>>), Link(LIST_LINK, <<1>>) >>

InitLinks ==
    /\ heap = LinkHeap
    /\ counter = Len(LinkHeap) + 1
    /\ InitStore
    /\ InitThreads
    /\ InitQueue
    /\ last = Call("init", NULL, NoKey, NULL, TRUE)

\* add_link(type, outgoing) on a link just constructed: return add_atom(link)
LinksAdd == (\E h \in Handles : add_atom(h)) /\ UNCHANGED threads
LinksRemove == (\E h \in Handles : remove_atom(h)) /\ UNCHANGED threads

LinksFind ==
    /\ \E t \in LinkTypes \cup {INHERITANCE_LINK}, atom \in Handles \cup {NULL} :
          find_links_to(t, atom) \/ find_links_containing(t, atom)
    /\ UNCHANGED threads

\* get_node / get_link on the keys of the constructed atoms, stored or not
LinksLookup ==
    /\ counter <= Len(LinkHeap) + MaxLookups
    /\ \E h \in Handles :
          IF heap[h].is_node THEN get_node(heap[h].type, heap[h].name)
                             ELSE get_link(heap[h].type, heap[h].outgoing)
    /\ UNCHANGED threads

\* get_atom(uuid) on the uuids handed out so far and on the next one
LinksGetAtom ==
    /\ \E u \in 1..counter : last' = LookupCall("get_atom", NoKey, u, get_atom(u))
    /\ UNCHANGED <<heap, counter, store, threads>>

\* get_atoms_by_type(t, subclasses) and size(t), also for the base type NODE
LinksByType ==
    /\ \E t \in AtomTypes \cup {NODE}, subclasses \in BOOLEAN :
          last' = [FindCall("get_atoms_by_type", t, NULL, TRUE, get_atoms_by_type_flag(t, subclasses))
                     EXCEPT !.ret = size_of_type(t), !.pvars = <<subclasses>>]
    /\ UNCHANGED <<heap, counter, store, threads>>

NextLinks ==
    LinksAdd \/ LinksRemove \/ LinksFind \/ LinksLookup \/ LinksGetAtom \/ LinksByType
SpecLinks == InitLinks /\ [][NextLinks]_vars

\* ---- atom construction under concurrent callers --------------------------
\* a counter whose increment is lost
next_uuid_lost(c) == c
\* Atom::next_uuid: counter++ on a static std::atomic<UUID>, one indivisible
\* read-modify-write; the value the counter holds after the call
next_uuid(c) == c + 1

\* Atom::Atom, the member initialiser m_uuid(next_uuid()): the thread holds
\* no lock; the object is not complete yet
T_construct(t) ==
    /\ pc[t] = "idle" /\ counter <= MaxUuid
    /\ \E ty \in NodeTypes, n \in Names :
          loc' = [loc EXCEPT ![t] = Call("add_node", counter, Node(ty, n), NULL, FALSE)]
    /\ counter' = next_uuid(counter)
    /\ Goto(t, "ctor")
    /\ UNCHANGED <<heap, store, last, m_mutex, returned>>
    /\ UNCHANGED queue

\* the constructor returns (last.results: the uuids of the atoms constructed
\* so far, living or not) and add_node passes the atom to add_atom
T_constructed(t) ==
    /\ pc[t] = "ctor"
    /\ heap' = (loc[t].arg :> loc[t].key) @@ heap
    /\ last' = [Call("construct", loc[t].arg, loc[t].key, loc[t].arg, TRUE)
                  EXCEPT !.results = last.results \cup {loc[t].arg}]
    /\ Goto(t, "add_lock")
    /\ UNCHANGED <<counter, store, m_mutex, loc, returned>>
    /\ UNCHANGED queue

NextConstruct ==
    \E t \in TraverseThreads :
        \/ T_construct(t) \/ T_constructed(t) \/ AddSteps(t)
        \/ T_remove_atom(t) \/ RemoveSteps(t)
SpecConstruct == Init /\ [][NextConstruct]_vars

\* ---- atom.hpp: to_string / to_short_string -------------------------------
\* atom_type_name(type)
atom_type_name(t) ==
    CASE t = CONCEPT_NODE -> "ConceptNode"
      [] t = PREDICATE_NODE -> "PredicateNode"
      [] t = VARIABLE_NODE -> "VariableNode"
      [] t = LIST_LINK -> "ListLink"
      [] t = INHERITANCE_LINK -> "InheritanceLink"
      [] OTHER -> "UnknownType"

\* Node::to_string / Node::to_short_string of the node object r (the truth
\* value is the default one and is not printed)
NodeText(short, r) ==
    IF short THEN <<atom_type_name(r.type), ":\"", r.name, "\"">>
             ELSE <<"(", atom_type_name(r.type), " \"", r.name, "\"", ")">>
\* Link::to_string / Link::to_short_string up to the loop over m_outgoing
LinkHead(short, r) ==
    IF short THEN <<atom_type_name(r.type), "(">> ELSE <<"(", atom_type_name(r.type)>>
\* what precedes the i-th outgoing atom (i counted from 0)
Separator(short, i) ==
    IF short THEN (IF i > 0 THEN <<", ">> ELSE << >>) ELSE <<"\n  ">>

\* the frame of a to_string call on the handle h: the nested calls on links
\* that have not returned (each with its loop index) and the text so far
ToStringFrame(short, h, stack, text) ==
    [op |-> IF short THEN "to_short_string" ELSE "to_string", short |-> short,
     arg |-> h, stack |-> stack, text |-> text]

\* h->to_string() or h->to_short_string() is called on a handle the caller
\* holds
ToStringCall ==
    /\ pc[1] = "idle"
    /\ \E h \in Handles, short \in BOOLEAN :
          loc' = [loc EXCEPT ![1] =
                    IF heap[h].is_node
                      THEN ToStringFrame(short, h, << >>, NodeText(short, heap[h]))
                      ELSE ToStringFrame(short, h, <<[atom |-> h, i |-> 0]>>,
                                         LinkHead(short, heap[h]))]
    /\ Goto(1, "to_string")
    /\ UNCHANGED <<heap, counter, store, last, m_mutex, returned>>
    /\ UNCHANGED queue

\* one round of the loop of the innermost call, or its return: the outgoing
\* atom is printed as "null", as a node, or by a nested call on the link;
\* there is no guard on the depth of the recursion
ToStringStep ==
    /\ pc[1] = "to_string" /\ loc[1].stack # << >>
    /\ LET f == loc[1]
           n == Len(f.stack)
           top == f.stack[n]
           out == heap[top.atom].outgoing
           sep == Separator(f.short, top.i)
           next == [f.stack EXCEPT ![n].i = top.i + 1]
       IN  IF top.i = Len(out)
             THEN /\ loc' = [loc EXCEPT ![1].stack = SubSeq(f.stack, 1, n - 1),
                                       ![1].text = f.text \o <<")">>]
                  /\ UNCHANGED pc
             ELSE LET c == out[top.i + 1]
                  IN  IF c = NULL
                        THEN /\ loc' = [loc EXCEPT ![1].stack = next,
                                                  ![1].text = f.text \o sep \o <<"null">>]
                             /\ UNCHANGED pc
                        ELSE IF heap[c].is_node
                          THEN /\ loc' = [loc EXCEPT ![1].stack = next,
                                                    ![1].text = f.text \o sep \o NodeText(f.short, heap[c])]
                               /\ UNCHANGED pc
                          ELSE IF n = MaxDepth
                            THEN /\ Goto(1, "crashed")
                                 /\ UNCHANGED loc
                            ELSE /\ loc' = [loc EXCEPT ![1].stack = Append(next, [atom |-> c, i |-> 0]),
                                                      ![1].text = f.text \o sep \o LinkHead(f.short, heap[c])]
                                 /\ UNCHANGED pc
    /\ UNCHANGED <<heap, counter, store, last, m_mutex, returned>>
    /\ UNCHANGED queue

\* the outermost call returns the string
ToStringReturn ==
    /\ pc[1] = "to_string" /\ loc[1].stack = << >>
    /\ last' = [Call(loc[1].op, loc[1].arg, heap[loc[1].arg], NULL, TRUE)
                  EXCEPT !.pvars = loc[1].text]
    /\ loc' = [loc EXCEPT ![1] = NoCall]
    /\ Goto(1, "idle")
    /\ UNCHANGED <<heap, counter, store, m_mutex, returned>>
    /\ UNCHANGED queue

\* atoms are constructed and printed by one thread, which runs a call it has
\* started to its end
NextToString == CreateNode \/ CreateLink \/ ToStringCall \/ ToStringStep \/ ToStringReturn
SpecToString ==
    Init /\ [][NextToString]_vars /\ WF_vars(ToStringStep) /\ WF_vars(ToStringReturn)

\* ---- pattern_match.hpp: find_nodes ---------------------------------------
\* A std::string is the sequence of its characters.
\* name.find(sub) != npos
StrFind(name, sub) ==
    \E k \in 0..(Len(name) - Len(sub)) : SubSeq(name, k + 1, k + Len(sub)) = sub
\* name.compare(pos, len, s) == 0: the substring is cut at the end of name
StrCompare(name, pos, len, s) ==
    SubSeq(name, pos + 1, IF pos + len > Len(name) THEN Len(name) ELSE pos + len) = s

\* match_name(name, pattern)
match_name(name, pattern) ==
    IF pattern = <<"*">> THEN TRUE
    ELSE IF pattern = << >> THEN name = << >>
    ELSE IF pattern[1] = "*" /\ pattern[Len(pattern)] = "*"
      THEN StrFind(name, SubSeq(pattern, 2, Len(pattern) - 1))
    ELSE IF pattern[1] = "*"
      THEN LET suffix == SubSeq(pattern, 2, Len(pattern))
           IN  /\ Len(name) >= Len(suffix)
               /\ StrCompare(name, Len(name) - Len(suffix), Len(suffix), suffix)
    ELSE IF pattern[Len(pattern)] = "*"
      THEN LET prefix == SubSeq(pattern, 1, Len(pattern) - 1)
           IN  StrCompare(name, 0, Len(prefix), prefix)
    ELSE name = pattern

\* find_nodes(type, name_pattern)
find_nodes(t, name_pattern) ==
    LET atoms == get_atoms_by_type(t)
        result == IF name_pattern = <<"*">>
                    THEN atoms
                    ELSE {atom \in atoms : heap[atom].is_node /\ match_name(heap[atom].name, name_pattern)}
    IN  /\ UNCHANGED <<heap, counter, store>>
        /\ last' = [FindCall("find_nodes", t, NULL, TRUE, result) EXCEPT !.pvars = name_pattern]

\* atoms the caller has constructed: ConceptNodes named "", "a", "ab", "ba"
\* and "a*", a PredicateNode "ab" and a ListLink
NameHeap ==
    << Node(CONCEPT_NODE, << >>), Node(CONCEPT_NODE, <<"a">>),
       Node(CONCEPT_NODE, <<"a", "b">>), Node(CONCEPT_NODE, <<"b", "a">>),
       Node(CONCEPT_NODE, <<"a", "*">>), Node(PREDICATE_NODE, <<"a", "b">>),
       Link(LIST_LINK, <<2>>) >>
\* the patterns tried: every string of at most MaxPattern characters
PatternChars == {"a", "b", "*"}
Patterns == UNION {[1..n -> PatternChars] : n \in 0..MaxPattern}

InitNames ==
    /\ heap = NameHeap
    /\ counter = Len(NameHeap) + 1
    /\ InitStore
    /\ InitThreads
    /\ InitQueue
    /\ last = Call("init", NULL, NoKey, NULL, TRUE)

NamesFind ==
    /\ \E t \in {CONCEPT_NODE, PREDICATE_NODE, LIST_LINK}, p \in Patterns : find_nodes(t, p)
    /\ UNCHANGED threads

NextNames == LinksAdd \/ LinksRemove \/ NamesFind
SpecNames == InitNames /\ [][NextNames]_vars

\* ---- truth_value.hpp: double arithmetic ----------------------------------
\* A double is a fraction n/d in lowest terms (d > 0), or one of the special
\* values +infinity (1/0), -infinity (-1/0) and NaN (0/0).  Finite results
\* are exact: rounding is not modelled.
RECURSIVE Gcd(_, _)
Gcd(a, b) == IF b = 0 THEN a ELSE Gcd(b, a % b)
Abs(n) == IF n < 0 THEN 0 - n ELSE n
Sgn(n) == IF n < 0 THEN 0 - 1 ELSE IF n > 0 THEN 1 ELSE 0
\* the double n/d, d # 0
Frac(n, d) ==
    LET g == Gcd(Abs(n), Abs(d))
    IN  [n |-> Sgn(d) * (n \div g), d |-> Abs(d) \div g]
Num(n) == [n |-> n, d |-> 1]
Inf(sign) == [n |-> sign, d |-> 0]
NaN == [n |-> 0, d |-> 0]
IsNaN(x) == x.d = 0 /\ x.n = 0
IsInf(x) == x.d = 0 /\ x.n # 0

\* x + y, x - y, x * y, x / y (common factors are cancelled before the
\* products are formed)
DAdd(x, y) ==
    IF IsNaN(x) \/ IsNaN(y) THEN NaN
    ELSE IF IsInf(x) /\ IsInf(y) THEN (IF x.n = y.n THEN x ELSE NaN)
    ELSE IF IsInf(x) THEN x
    ELSE IF IsInf(y) THEN y
    ELSE LET g == Gcd(x.d, y.d)
         IN  Frac(x.n * (y.d \div g) + y.n * (x.d \div g), (x.d \div g) * y.d)
DNeg(x) == [n |-> 0 - x.n, d |-> x.d]
DSub(x, y) == DAdd(x, DNeg(y))
DMul(x, y) ==
    IF IsNaN(x) \/ IsNaN(y) THEN NaN
    ELSE IF IsInf(x) \/ IsInf(y)
      THEN (IF x.n = 0 \/ y.n = 0 THEN NaN ELSE Inf(Sgn(x.n) * Sgn(y.n)))
    ELSE LET a == Frac(x.n, y.d)
             b == Frac(y.n, x.d)
         IN  Frac(a.n * b.n, a.d * b.d)
DDiv(x, y) ==
    IF IsNaN(x) \/ IsNaN(y) THEN NaN
    ELSE IF IsInf(x) THEN (IF IsInf(y) THEN NaN ELSE Inf(x.n * (IF y.n < 0 THEN 0 - 1 ELSE 1)))
    ELSE IF IsInf(y) THEN Num(0)
    ELSE IF y.n = 0 THEN (IF x.n = 0 THEN NaN ELSE Inf(Sgn(x.n)))
    ELSE LET a == Frac(x.n, y.n)
             b == Frac(y.d, x.d)
         IN  Frac(a.n * b.n, a.d * b.d)
\* x < y, x >= y, x == y: false whenever an operand is NaN
DLess(x, y) ==
    /\ ~IsNaN(x) /\ ~IsNaN(y)
    /\ IF IsInf(x) THEN x.n < 0 /\ ~(IsInf(y) /\ y.n < 0)
       ELSE IF IsInf(y) THEN y.n > 0
       ELSE DSub(x, y).n < 0
DEq(x, y) == ~IsNaN(x) /\ ~IsNaN(y) /\ x = y
DGeq(x, y) == ~IsNaN(x) /\ ~IsNaN(y) /\ ~DLess(x, y)
\* std::clamp(v, lo, hi), std::min(a, b), std::max(a, b)
clamp(v, lo, hi) == IF DLess(v, lo) THEN lo ELSE IF DLess(hi, v) THEN hi ELSE v
min(a, b) == IF DLess(b, a) THEN b ELSE a
max(a, b) == IF DLess(a, b) THEN b ELSE a

\* ---- truth_value.hpp: TruthValue -----------------------------------------
DEFAULT_K == Num(800)
\* TruthValue(strength, confidence) and TruthValue()
TruthValue(s, c) ==
    [m_strength |-> clamp(s, Num(0), Num(1)), m_confidence |-> clamp(c, Num(0), Num(1))]
TruthValueDefault == [m_strength |-> Num(0), m_confidence |-> Num(0)]
\* from_count(strength, count, k)
from_count(s, cnt, k) == TruthValue(s, DDiv(cnt, DAdd(cnt, k)))
\* tv.count(k)
count(tv, k) ==
    IF DGeq(tv.m_confidence, Num(1)) THEN Inf(1)
    ELSE DDiv(DMul(k, tv.m_confidence), DSub(Num(1), tv.m_confidence))
\* tv.set_strength(s), tv.set_confidence(c)
set_strength(tv, s) == [tv EXCEPT !.m_strength = clamp(s, Num(0), Num(1))]
set_confidence(tv, c) == [tv EXCEPT !.m_confidence = clamp(c, Num(0), Num(1))]
\* tv.merge(other)
merge(tv, other) ==
    IF DEq(tv.m_confidence, Num(0)) /\ DEq(other.m_confidence, Num(0))
      THEN TruthValueDefault
      ELSE LET total_conf == DAdd(tv.m_confidence, other.m_confidence)
               merged_strength ==
                   DDiv(DAdd(DMul(tv.m_strength, tv.m_confidence),
                             DMul(other.m_strength, other.m_confidence)), total_conf)
               merged_conf == max(tv.m_confidence, other.m_confidence)
           IN  TruthValue(merged_strength, merged_conf)
\* tv.revision(other, k)
revision(tv, other, k) ==
    LET c1 == count(tv, k)
        c2 == count(other, k)
        new_count == DAdd(c1, c2)
    IN  IF DEq(new_count, Num(0))
          THEN TruthValueDefault
          ELSE LET new_strength ==
                       DDiv(DAdd(DMul(tv.m_strength, c1), DMul(other.m_strength, c2)), new_count)
               IN  from_count(new_strength, new_count, k)
\* tv.negation()
negation(tv) == TruthValue(DSub(Num(1), tv.m_strength), tv.m_confidence)
\* a conjunction that keeps the larger confidence
conjunction_max(tv, other) ==
    TruthValue(DMul(tv.m_strength, other.m_strength), max(tv.m_confidence, other.m_confidence))
\* tv.conjunction(other)
conjunction(tv, other) ==
    TruthValue(DMul(tv.m_strength, other.m_strength), min(tv.m_confidence, other.m_confidence))
\* tv.disjunction(other)
disjunction(tv, other) ==
    TruthValue(DSub(DAdd(tv.m_strength, other.m_strength), DMul(tv.m_strength, other.m_strength)),
               min(tv.m_confidence, other.m_confidence))

\* ---- the truth value specification ---------------------------------------
\* the doubles passed as strength and confidence, in and out of [0,1], and
\* as evidence counts
StrengthArgs == {Frac(0 - 1, 2), Frac(3, 5), Frac(4, 5), Frac(3, 2)}
ConfidenceArgs == {Frac(0 - 1, 2), Frac(1, 3), Frac(2, 5), Frac(3, 5), Inf(1)}
CountArgs == {Num(0), Num(400), Num(800), Inf(1)}
\* the truth values a caller constructs directly
BaseTVs == {TruthValue(s, c) : s \in StrengthArgs, c \in ConfidenceArgs}

\* the record of a TruthValue call: the object it was called on, the other
\* operand, the scalar arguments, the truth value obtained and the number of
\* calls that produced it from a constructed truth value
TVCall(op, tv, other, x, y, ret, depth) ==
    [op |-> op, tv |-> tv, other |-> other, x |-> x, y |-> y, ret |-> ret, depth |-> depth]
\* a truth value has been obtained and may be operated on
HasTV == last.op # "init" /\ last.depth < MaxOps
\* the other operand: a constructed truth value or the object itself
Others == BaseTVs \cup {last.ret}

TVConstruct ==
    /\ \E s \in StrengthArgs, c \in ConfidenceArgs :
          last' = TVCall("TruthValue", TruthValueDefault, TruthValueDefault, s, c, TruthValue(s, c), 0)
    /\ UNCHANGED <<heap, counter, store, threads>>
\* from_count on a given count, and on the count of the truth value at hand
TVFromCount ==
    /\ \E s \in StrengthArgs \cup {Frac(7, 10)} :
          \/ \E cnt \in CountArgs :
                last' = TVCall("from_count", TruthValueDefault, TruthValueDefault, s, cnt,
                               from_count(s, cnt, DEFAULT_K), 0)
          \/ /\ HasTV
             /\ last' = TVCall("from_count", last.ret, last.ret, s, count(last.ret, DEFAULT_K),
                               from_count(s, count(last.ret, DEFAULT_K), DEFAULT_K), last.depth + 1)
    /\ UNCHANGED <<heap, counter, store, threads>>
TVSet ==
    /\ HasTV
    /\ \/ \E s \in StrengthArgs :
             last' = TVCall("set_strength", last.ret, last.ret, s, s,
                            set_strength(last.ret, s), last.depth + 1)
       \/ \E c \in ConfidenceArgs :
             last' = TVCall("set_confidence", last.ret, last.ret, c, c,
                            set_confidence(last.ret, c), last.depth + 1)
    /\ UNCHANGED <<heap, counter, store, threads>>
TVMerge ==
    /\ HasTV
    /\ \E b \in Others :
          last' = TVCall("merge", last.ret, b, NaN, NaN, merge(last.ret, b), last.depth + 1)
    /\ UNCHANGED <<heap, counter, store, threads>>
TVRevision ==
    /\ HasTV
    /\ \E b \in Others :
          last' = TVCall("revision", last.ret, b, DEFAULT_K, NaN,
                         revision(last.ret, b, DEFAULT_K), last.depth + 1)
    /\ UNCHANGED <<heap, counter, store, threads>>
TVNegation ==
    /\ HasTV
    /\ last' = TVCall("negation", last.ret, last.ret, NaN, NaN, negation(last.ret), last.depth + 1)
    /\ UNCHANGED <<heap, counter, store, threads>>
TVConjunction ==
    /\ HasTV
    /\ \E b \in Others :
          last' = TVCall("conjunction", last.ret, b, NaN, NaN, conjunction(last.ret, b), last.depth + 1)
    /\ UNCHANGED <<heap, counter, store, threads>>
TVDisjunction ==
    /\ HasTV
    /\ \E b \in Others :
          last' = TVCall("disjunction", last.ret, b, NaN, NaN, disjunction(last.ret, b), last.depth + 1)
    /\ UNCHANGED <<heap, counter, store, threads>>

NextTV ==
    \/ TVConstruct \/ TVSet \/ TVFromCount \/ TVMerge \/ TVRevision
    \/ TVNegation \/ TVConjunction \/ TVDisjunction
SpecTV == Init /\ [][NextTV]_vars

\* ---- concurrent_queue.hpp ------------------------------------------------
\* Every member function holds m_mutex from its first statement to its
\* return, pop giving it up only while it is blocked in m_condition.wait:
\* the body of a call between two such points is one step.  m_condition is
\* the threads blocked in wait and those woken that have not run yet.
\* what a pop or try_pop returned
Item(x) == [kind |-> "item", item |-> x]
NullOpt == [kind |-> "nullopt", item |-> NULL]
QueueCancelled == [kind |-> "cancelled", item |-> NULL]
\* a pop that has not returned: the number of pushes served when it blocked
BlockedAfter(n) == [kind |-> "blocked", item |-> n]
QCall(op, ret) == [op |-> op, ret |-> ret]

\* a push at the front of the queue
Enqueue_front(q, item) == <<item>> \o q
\* m_queue.push(item)
Enqueue(q, item) == Append(q, item)

\* the predicate of pop's wait: !m_queue.empty() || m_cancelled
PopReady == m_queue # << >> \/ m_cancelled

\* pop() past its wait: throw std::runtime_error("Queue cancelled"), or
\* move the front item out and return it
PopBody(t) ==
    /\ IF m_cancelled /\ m_queue = << >>
         THEN /\ loc' = [loc EXCEPT ![t] = QCall("pop", QueueCancelled)]
              /\ UNCHANGED <<m_queue, served>>
         ELSE /\ loc' = [loc EXCEPT ![t] = QCall("pop", Item(Head(m_queue)))]
              /\ m_queue' = Tail(m_queue)
              /\ served' = [served EXCEPT !.popped = Append(@, Head(m_queue))]
    /\ Goto(t, "idle")

\* push(item): the items are numbered in the order they are pushed;
\* notify_one wakes one of the threads blocked in wait, if there is one
Q_push(t) ==
    /\ pc[t] = "idle" /\ Len(served.pushed) < MaxItems
    /\ LET item == Len(served.pushed) + 1
       IN  /\ m_queue' = Enqueue(m_queue, item)
           /\ served' = [served EXCEPT !.pushed = Append(@, item)]
    /\ \E w \in (IF m_condition.waiting = {} THEN {NULL} ELSE m_condition.waiting) :
          m_condition' = IF w = NULL THEN m_condition
                         ELSE [waiting |-> m_condition.waiting \ {w},
                               notified |-> m_condition.notified \cup {w}]
    /\ UNCHANGED <<heap, counter, store, last, m_mutex, pc, loc, returned, m_cancelled>>

\* pop() up to its return or to the point where it blocks
Q_pop(t) ==
    /\ pc[t] = "idle"
    /\ IF PopReady
         THEN PopBody(t) /\ UNCHANGED m_condition
         ELSE /\ m_condition' = [m_condition EXCEPT !.waiting = @ \cup {t}]
              /\ loc' = [loc EXCEPT ![t] = QCall("pop", BlockedAfter(Len(served.pushed)))]
              /\ Goto(t, "pop_wait")
              /\ UNCHANGED <<m_queue, served>>
    /\ UNCHANGED <<heap, counter, store, last, m_mutex, returned, m_cancelled>>

\* a thread woken in wait has the mutex again and evaluates the predicate:
\* it goes on, or blocks again
Q_wake(t) ==
    /\ pc[t] = "pop_wait" /\ t \in m_condition.notified
    /\ IF PopReady
         THEN /\ PopBody(t)
              /\ m_condition' = [m_condition EXCEPT !.notified = @ \ {t}]
         ELSE /\ m_condition' = [waiting |-> m_condition.waiting \cup {t},
                                 notified |-> m_condition.notified \ {t}]
              /\ UNCHANGED <<pc, loc, m_queue, served>>
    /\ UNCHANGED <<heap, counter, store, last, m_mutex, returned, m_cancelled>>

\* std::condition_variable::wait may return without a notification
Q_spurious(t) ==
    /\ t \in m_condition.waiting
    /\ m_condition' = [waiting |-> m_condition.waiting \ {t},
                       notified |-> m_condition.notified \cup {t}]
    /\ UNCHANGED <<heap, counter, store, last, m_mutex, pc, loc, returned,
                   m_queue, m_cancelled, served>>

\* try_pop()
Q_try_pop(t) ==
    /\ pc[t] = "idle"
    /\ IF m_queue = << >>
         THEN /\ loc' = [loc EXCEPT ![t] = QCall("try_pop", NullOpt)]
              /\ UNCHANGED <<m_queue, served>>
         ELSE /\ loc' = [loc EXCEPT ![t] = QCall("try_pop", Item(Head(m_queue)))]
              /\ m_queue' = Tail(m_queue)
              /\ served' = [served EXCEPT !.popped = Append(@, Head(m_queue))]
    /\ UNCHANGED <<heap, counter, store, last, m_mutex, pc, returned, m_cancelled, m_condition>>

\* a notification that wakes nobody
notify_all_lost(c) == c
\* m_condition.notify_all(): every thread blocked in wait is woken
notify_all(c) == [waiting |-> {}, notified |-> c.notified \cup c.waiting]

\* cancel()
Q_cancel(t) ==
    /\ pc[t] = "idle"
    /\ m_cancelled' = TRUE
    /\ m_condition' = notify_all(m_condition)
    /\ UNCHANGED <<heap, counter, store, last, m_mutex, pc, loc, returned, m_queue, served>>

\* size()
queue_size == Len(m_queue)

\* threads that push, pop, try_pop and cancel; a thread that was woken is
\* scheduled and gets the mutex
NextQueue ==
    \E t \in Threads :
        \/ Q_push(t) \/ Q_pop(t) \/ Q_wake(t) \/ Q_spurious(t)
        \/ Q_try_pop(t) \/ Q_cancel(t)
SpecQueue == Init /\ [][NextQueue]_vars /\ \A t \in Threads : WF_vars(Q_wake(t))

\* ---- links over copies of a node -----------------------------------------
\* atoms the caller has constructed: the concept "a" twice (two objects, what
\* two create_node calls give), the ListLink over each of them, the concept
\* "b" and the ListLink over the first "a" and "b"
IncomingHeap ==
    << Node(CONCEPT_NODE, "a"), Node(CONCEPT_NODE, "a"),
       Link(LIST_LINK, <<1>>), Link(LIST_LINK, <<2>>),
       Node(CONCEPT_NODE, "b"), Link(LIST_LINK, <<1, 5>>) >>

InitIncoming ==
    /\ heap = IncomingHeap
    /\ counter = Len(IncomingHeap) + 1
    /\ InitStore
    /\ InitThreads
    /\ InitQueue
    /\ last = Call("init", NULL, NoKey, NULL, TRUE)

NextIncoming == LinksAdd \/ LinksRemove \/ Clear
SpecIncoming == InitIncoming /\ [][NextIncoming]_vars

\* ---- get_stats -----------------------------------------------------------
\* get_stats(): total_atoms is m_atoms.size(), one pass over m_atoms counts
\* the nodes and the links, one pass over m_by_type gives the histogram
get_stats ==
    [total_atoms |-> Cardinality(m_atoms),
     total_nodes |-> Cardinality({a \in m_atoms : heap[a].is_node}),
     total_links |-> Cardinality({a \in m_atoms : ~heap[a].is_node}),
     by_type |-> [t \in DOMAIN m_by_type |-> Cardinality(m_by_type[t])]]

\* stats.by_type[t], the operator[] of the unordered_map: 0 for a missing key
StatsByType(stats, t) == IF t \in DOMAIN stats.by_type THEN stats.by_type[t] ELSE 0

StatsCall ==
    /\ last' = Call("get_stats", NULL, NoKey, get_stats, TRUE)
    /\ UNCHANGED <<heap, counter, store, threads>>

NextStats == LinksAdd \/ LinksRemove \/ Clear \/ StatsCall
SpecStats == InitLinks /\ [][NextStats]_vars

\* ---- the incoming buckets, entry by entry --------------------------------
\* A bucket of m_incoming as the sequence its iteration yields; get_incoming
\* copies it with HandleSeq(it->second.begin(), it->second.end()).
BucketSeq(inc, u) == IF u \in DOMAIN inc THEN inc[u] ELSE << >>
\* the positions of a bucket holding an element equal to h
SeqFind(hp, q, h) == {i \in 1..Len(q) : AtomEqual(hp, q[i], h)}
\* an insert that does not look for an equal element (a multiset)
BucketInsert_multi(hp, q, h) == Append(q, h)
\* unordered_set::insert(h): no effect when an equal element is present
BucketInsert(hp, q, h) == IF SeqFind(hp, q, h) # {} THEN q ELSE Append(q, h)
\* unordered_set::erase(h): the element equal to h goes, if there is one
BucketErase(hp, q, h) ==
    LET F == SeqFind(hp, q, h)
    IN  IF F = {} THEN q
        ELSE LET k == CHOOSE i \in F : \A j \in F : i <= j
             IN  [i \in 1..(Len(q) - 1) |-> IF i < k THEN q[i] ELSE q[i + 1]]

\* for (const auto& target : atom->outgoing()) if (target)
\*     m_incoming[target->uuid()].insert(atom);   from entry i on
RECURSIVE InsertIncomingFrom(_, _, _, _)
InsertIncomingFrom(hp, inc, u, i) ==
    IF i > Len(hp[u].outgoing) THEN inc
    ELSE LET target == hp[u].outgoing[i]
         IN  IF target = NULL THEN InsertIncomingFrom(hp, inc, u, i + 1)
             ELSE InsertIncomingFrom(hp,
                     (target :> BucketInsert(hp, BucketSeq(inc, target), u)) @@ inc, u, i + 1)

\* the same loop with erase(atom), h being the handle passed to remove_atom
RECURSIVE EraseIncomingFrom(_, _, _, _)
EraseIncomingFrom(hp, inc, h, i) ==
    IF i > Len(hp[h].outgoing) THEN inc
    ELSE LET target == hp[h].outgoing[i]
         IN  IF target = NULL THEN EraseIncomingFrom(hp, inc, h, i + 1)
             ELSE EraseIncomingFrom(hp,
                     (target :> BucketErase(hp, BucketSeq(inc, target), h)) @@ inc, h, i + 1)

\* get_incoming(atom) as the HandleSeq it returns
get_incoming_seq(h) == IF h = NULL THEN << >> ELSE BucketSeq(m_incoming, h)

\* atoms the caller has constructed: the concept "a" twice, the ListLink
\* naming the first object twice, the one naming the second object twice,
\* the one naming both, a second object for the first link, the concept "b"
\* and the ListLink over "a" and "b"
SelfHeap ==
    << Node(CONCEPT_NODE, "a"), Node(CONCEPT_NODE, "a"),
       Link(LIST_LINK, <<1, 1>>), Link(LIST_LINK, <<2, 2>>), Link(LIST_LINK, <<1, 2>>),
       Link(LIST_LINK, <<1, 1>>), Node(CONCEPT_NODE, "b"), Link(LIST_LINK, <<1, 7>>) >>

InitSelf ==
    /\ heap = SelfHeap
    /\ counter = Len(SelfHeap) + 1
    /\ InitStore
    /\ InitThreads
    /\ InitQueue
    /\ last = Call("init", NULL, NoKey, NULL, TRUE)

\* add_atom(h) on a non-null handle
SelfAdd ==
    /\ \E h \in Handles :
          IF SetFind(heap, m_atoms, h) # {}
            THEN AddFound("add_atom", heap, h, TRUE)
            ELSE /\ m_atoms' = InsertPrimary(heap, m_atoms, h)
                 /\ m_by_type' = InsertByType(heap, m_by_type, h)
                 /\ m_by_uuid' = InsertByUuid(m_by_uuid, h)
                 /\ m_incoming' = InsertIncomingFrom(heap, m_incoming, h, 1)
                 /\ last' = Call("add_atom", h, heap[h], h, TRUE)
                 /\ UNCHANGED heap
    /\ UNCHANGED <<counter, threads>>

\* remove_atom(h) on a non-null handle
SelfRemove ==
    /\ \E h \in Handles :
          LET it == SetFind(heap, m_atoms, h)
          IN  IF it = {}
                THEN RemoveMiss(h)
                ELSE /\ m_by_type' = EraseByType(heap, m_by_type, h)
                     /\ m_by_uuid' = EraseByUuid(m_by_uuid, h)
                     /\ m_incoming' = EraseIncomingFrom(heap, m_incoming, h, 1)
                     /\ m_atoms' = ErasePrimary(heap, m_atoms, it)
                     /\ last' = Call("remove_atom", h, heap[h], CHOOSE x \in it : TRUE, TRUE)
    /\ UNCHANGED <<heap, counter, threads>>

NextSelf == SelfAdd \/ SelfRemove \/ Clear
SpecSelf == InitSelf /\ [][NextSelf]_vars

\* ---- pattern_match.hpp: Pattern and QueryBuilder -------------------------
\* Pattern(): no variables, no body, no clauses
PatternDefault == [m_variables |-> << >>, m_body |-> NULL, m_clauses |-> << >>]
\* m_variables[name] = type
add_variable(p, name, type) ==
    [p EXCEPT !.m_variables = [n \in DOMAIN @ \cup {name} |-> IF n = name THEN type ELSE @[n]]]
set_body(p, b) == [p EXCEPT !.m_body = b]
add_clause(p, clause) == [p EXCEPT !.m_clauses = Append(@, clause)]

\* QueryBuilder::var / body / where on the builder's m_pattern
QueryBuilder_var(p, name, type) == add_variable(p, name, type)
QueryBuilder_body(p, b) == set_body(p, b)
QueryBuilder_where(p, clause) == add_clause(p, clause)

\* the declarations pv made one by one, and the clauses cl added one by one
RECURSIVE AddClauses(_, _, _)
AddClauses(p, cl, where) ==
    IF cl = << >> THEN p
    ELSE AddClauses(IF where THEN QueryBuilder_where(p, Head(cl)) ELSE add_clause(p, Head(cl)),
                    Tail(cl), where)
RECURSIVE AddVariables(_, _, _)
AddVariables(p, pv, var) ==
    IF DOMAIN pv = {} THEN p
    ELSE LET n == CHOOSE x \in DOMAIN pv : TRUE
         IN  AddVariables(IF var THEN QueryBuilder_var(p, n, pv[n]) ELSE add_variable(p, n, pv[n]),
                          [x \in DOMAIN pv \ {n} |-> pv[x]], var)

\* a matcher that keeps a result only if every clause is a stored atom
PatternMatcher_match_joined(p, ub) ==
    LET o == MatchOutcome(p.m_variables, p.m_body, ub)
    IN  IF \A i \in DOMAIN p.m_clauses : contains(p.m_clauses[i]) THEN o ELSE Outcome(o.ok, {})
\* PatternMatcher::match(pattern): match_recursive reads pattern.body() and
\* pattern.variables()
PatternMatcher_match(p, ub) == MatchOutcome(p.m_variables, p.m_body, ub)

PatternCall(op, p, o) ==
    [op |-> op, arg |-> p.m_body, key |-> IF p.m_body = NULL THEN NoKey ELSE heap[p.m_body],
     ret |-> NULL, ok |-> o.ok, pvars |-> p.m_variables, results |-> o.results,
     clauses |-> p.m_clauses]

\* the clauses tried: none, a stored concept, a template that is never
\* stored, a template and a link, an empty handle
QueryClauses == {<< >>, <<2>>, <<10>>, <<10, 6>>, <<NULL>>}

\* Pattern().add_variable(..).set_body(..).add_clause(..)..., then
\* PatternMatcher(atomspace).match(pattern)
QueryMatch ==
    /\ counter <= Len(PMHeap) + MaxLookups
    /\ \E pv \in PMVars, body \in CancelBodies, cl \in QueryClauses :
          LET p == AddClauses(set_body(AddVariables(PatternDefault, pv, FALSE), body), cl, FALSE)
          IN  /\ counter' = counter + MatchTemporaries(body)
              /\ \E ub \in UBChoices(body) :
                    last' = PatternCall("match", p, PatternMatcher_match(p, ub))
    /\ UNCHANGED <<heap, store, threads>>

\* QueryBuilder(atomspace).var(..).body(..).where(..)....execute()
QueryExecute ==
    /\ counter <= Len(PMHeap) + MaxLookups
    /\ \E pv \in PMVars, body \in CancelBodies, cl \in QueryClauses :
          LET p == AddClauses(QueryBuilder_body(AddVariables(PatternDefault, pv, TRUE), body), cl, TRUE)
          IN  /\ counter' = counter + MatchTemporaries(body)
              /\ \E ub \in UBChoices(body) :
                    last' = PatternCall("execute", p, PatternMatcher_match(p, ub))
    /\ UNCHANGED <<heap, store, threads>>

NextQuery == CancelAddAtom \/ CancelRemoveAtom \/ QueryMatch \/ QueryExecute
SpecQuery == InitPM /\ [][NextQuery]_vars

\* ---- match with a callback that mutates the store ------------------------
\* the thread that matches and the thread that adds atoms beside it
Matchers == {1}
Mutators == {2}

\* the calls a callback makes on the AtomSpace it is matching: add_atom of a
\* link the caller holds (what add_node and add_link do once the atom is
\* constructed), remove_atom of the candidate it was handed, clear
CallbackCalls(c) ==
    {[op |-> "add_atom", arg |-> 7], [op |-> "remove_atom", arg |-> c],
     [op |-> "clear", arg |-> NULL]}

\* match_recursive: one round of the candidate loop on a matching candidate,
\* the callback calling a mutating operation of the AtomSpace
T_cb_invoke(t) ==
    /\ pc[t] = "match_deliver"
    /\ \E c \in loc[t].candidates \ loc[t].done :
          LET body == loc[t].body
              u == IF IsVariable(heap, body)
                     THEN Unified("match", (heap[body].name :> c))
                     ELSE Unify(heap, heap[body], heap[c], 1, << >>, "crash")
              hit == [cand |-> c, bindings |-> u.bindings, stored |-> c \in m_atoms]
          IN  /\ u.status = "match"
              /\ \E cb \in CallbackCalls(c) :
                    loc' = [loc EXCEPT ![t] =
                              ("cb" :> cb) @@ [loc[t] EXCEPT !.done = @ \cup {c},
                                                             !.delivered = @ \cup {hit}]]
    /\ Goto(t, "cb_lock")
    /\ UNCHANGED <<heap, counter, store, last, m_mutex, returned>>
    /\ UNCHANGED queue

\* the callback's call: std::unique_lock lock(m_mutex)
T_cb_lock(t) ==
    /\ pc[t] = "cb_lock" /\ CanLockUnique
    /\ m_mutex' = [m_mutex EXCEPT !.writer = t]
    /\ Goto(t, "cb_body")
    /\ UNCHANGED <<heap, counter, store, last, loc, returned>>
    /\ UNCHANGED queue

\* the callback's call: its body under the unique lock
T_cb_body(t) ==
    /\ pc[t] = "cb_body"
    /\ CASE loc[t].cb.op = "add_atom" -> add_atom(loc[t].cb.arg)
         [] loc[t].cb.op = "remove_atom" -> remove_atom(loc[t].cb.arg)
         [] OTHER -> clear
    /\ Goto(t, "cb_unlock")
    /\ UNCHANGED <<m_mutex, loc, returned>>
    /\ UNCHANGED queue

\* the callback's call returns, releasing the lock, and the callback returns
\* true to the candidate loop
T_cb_unlock(t) ==
    /\ pc[t] = "cb_unlock"
    /\ m_mutex' = [m_mutex EXCEPT !.writer = IF @ = t THEN NULL ELSE @]
    /\ loc' = [loc EXCEPT ![t] = [f \in DOMAIN loc[t] \ {"cb"} |-> loc[t][f]]]
    /\ Goto(t, "match_deliver")
    /\ UNCHANGED <<heap, counter, store, last, returned>>
    /\ UNCHANGED queue

NextMatchCallback ==
    \/ \E t \in Matchers :
          \/ T_match(t) \/ T_match_index(t) \/ T_match_deliver(t) \/ T_match_return(t)
          \/ T_cb_invoke(t) \/ T_cb_lock(t) \/ T_cb_body(t) \/ T_cb_unlock(t)
    \/ \E t \in Mutators : T_add_atom(t) \/ AddSteps(t)
SpecMatchCallback == InitPM /\ [][NextMatchCallback]_vars

\* ---- the read-only operations --------------------------------------------
\* atoms the caller has constructed: two concepts, a variable, an
\* InheritanceLink and a ListLink over the concepts, and two templates that
\* are never inserted (a link over the variable, a third concept)
QueryHeap ==
    << Node(CONCEPT_NODE, <<"a">>), Node(CONCEPT_NODE, <<"a", "b">>),
       Node(VARIABLE_NODE, <<"X">>),
       Link(INHERITANCE_LINK, <<2, 1>>), Link(LIST_LINK, <<1>>),
       Link(INHERITANCE_LINK, <<3, 1>>), Node(CONCEPT_NODE, <<"b">>) >>
QueryStorable == {1, 2, 4, 5}
QueryVars == {<< >>, (<<"X">> :> CONCEPT_NODE)}
QueryPatterns == {<<"*">>, <<"a">>, <<"a", "*">>}

InitQueries ==
    /\ heap = QueryHeap
    /\ counter = Len(QueryHeap) + 1
    /\ InitStore
    /\ InitThreads
    /\ InitQueue
    /\ last = Call("init", NULL, NoKey, NULL, TRUE)

\* the record of an accessor call on the atom h
Accessor(op, h, ret, res) ==
    /\ last' = [Call(op, h, IF h = NULL THEN NoKey ELSE heap[h], ret, TRUE) EXCEPT !.results = res]
    /\ UNCHANGED <<heap, counter, store>>

\* find_by_type(type): return m_atomspace.get_atoms_by_type(type)
find_by_type(t) ==
    /\ last' = FindCall("find_by_type", t, NULL, TRUE, get_atoms_by_type(t))
    /\ UNCHANGED <<heap, counter, store>>

\* find_atoms(predicate) with a predicate that reads the atom only: is_node,
\* is_link, or always true
AtomPredicates == {"is_node", "is_link", "any"}
find_atoms(predicate) ==
    Accessor("find_atoms", NULL, NULL,
             {atom \in m_atoms : CASE predicate = "is_node" -> heap[atom].is_node
                                   [] predicate = "is_link" -> ~heap[atom].is_node
                                   [] OTHER -> TRUE})

QueriesAdd == (\E h \in QueryStorable : add_atom(h)) /\ UNCHANGED threads
QueriesRemove == (\E h \in QueryStorable : remove_atom(h)) /\ UNCHANGED threads

QueriesMatch ==
    /\ counter <= Len(QueryHeap) + MaxLookups
    /\ \E pv \in QueryVars, body \in Handles \cup {NULL} : match(pv, body)
    /\ UNCHANGED threads

QueriesFind ==
    /\ \/ \E t \in AtomTypes : find_by_type(t)
       \/ \E t \in AtomTypes, p \in QueryPatterns : find_nodes(t, p)
       \/ \E t \in {LIST_LINK, INHERITANCE_LINK}, atom \in Handles \cup {NULL} :
             find_links_to(t, atom) \/ find_links_containing(t, atom)
       \/ \E predicate \in AtomPredicates : find_atoms(predicate)
    /\ UNCHANGED threads

QueriesLookup ==
    /\ counter <= Len(QueryHeap) + MaxLookups
    /\ \E h \in Handles :
          IF heap[h].is_node THEN get_node(heap[h].type, heap[h].name)
                             ELSE get_link(heap[h].type, heap[h].outgoing)
    /\ UNCHANGED threads

QueriesAccess ==
    /\ \/ \E h \in Handles \cup {NULL} :
             \/ Accessor("get_incoming", h, NULL, get_incoming(h))
             \/ Accessor("contains", h, contains(h), {})
       \/ Accessor("size", NULL, size, {})
       \/ Accessor("get_stats", NULL, get_stats, {})
       \/ \E u \in 1..counter : last' = LookupCall("get_atom", NoKey, u, get_atom(u))
                                 /\ UNCHANGED <<heap, counter, store>>
    /\ UNCHANGED threads

NextQueries ==
    QueriesAdd \/ QueriesRemove \/ QueriesMatch \/ QueriesFind \/ QueriesLookup \/ QueriesAccess
SpecQueries == InitQueries /\ [][NextQueries]_vars

\* ---- the link finders over copies of a node ------------------------------
FindersFind ==
    /\ \E t \in {LIST_LINK, INHERITANCE_LINK}, atom \in Handles :
          find_links_to(t, atom) \/ find_links_containing(t, atom)
    /\ UNCHANGED threads

NextFinders == LinksAdd \/ LinksRemove \/ Clear \/ FindersFind
SpecFinders == InitIncoming /\ [][NextFinders]_vars

\* ---- remove_atom followed by add_atom ------------------------------------
\* atoms the caller has constructed: the concept "a" twice, the ListLink
\* over the first object, the ListLink over the second, and a second object
\* for the ListLink over the first
RoundTripHeap ==
    << Node(CONCEPT_NODE, "a"), Node(CONCEPT_NODE, "a"),
       Link(LIST_LINK, <<1>>), Link(LIST_LINK, <<2>>), Link(LIST_LINK, <<1>>) >>

InitRoundTrip ==
    /\ heap = RoundTripHeap
    /\ counter = Len(RoundTripHeap) + 1
    /\ InitStore
    /\ InitThreads
    /\ InitQueue
    /\ last = Call("init", NULL, NoKey, NULL, TRUE)

\* what the queries answer on the store as it is
Answers ==
    [atoms |-> m_atoms,
     contains |-> [x \in Handles |-> contains(x)],
     size |-> size,
     get_atom |-> [u \in Handles |-> get_atom(u)],
     get_atoms_by_type |-> [t \in AtomTypes |-> get_atoms_by_type(t)],
     get_incoming |-> [x \in Handles |-> get_incoming(x)]]

\* remove_atom(h); the caller has noted what the queries answered before it
RoundTripRemove ==
    /\ \E h \in Handles :
          /\ remove_atom(h)
          /\ returned' = {[op |-> "remove_atom", arg |-> h, before |-> Answers]}
    /\ UNCHANGED <<m_mutex, pc, loc, queue>>

NextRoundTrip == LinksAdd \/ RoundTripRemove
SpecRoundTrip == InitRoundTrip /\ [][NextRoundTrip]_vars

\* ---- atenspace.hpp: the tensor-enabled insertions -------------------------
\* create_tensor_node and create_tensor_link make a TensorNode or TensorLink,
\* which construct their Node or Link base and inherit its hash and
\* operator==; the object is an atom object of the heap like any other.
\* add_tensor_node and add_tensor_link pass the new object to add_atom, drop
\* what add_atom returns and return the object they made; `added` notes the
\* handle add_atom returned.
TensorCall(op, u, key, added) ==
    ("added" :> added) @@ Call(op, u, key, u, TRUE)

AddTensor(op, obj) ==
    /\ counter <= MaxUuid
    /\ counter' = counter + 1
    /\ LET u == counter
           hp == (u :> obj) @@ heap
           found == SetFind(hp, m_atoms, u)
       IN  /\ heap' = hp
           /\ IF found # {}
                THEN /\ UNCHANGED store
                     /\ last' = TensorCall(op, u, obj, CHOOSE x \in found : TRUE)
                ELSE /\ m_atoms' = InsertPrimary(hp, m_atoms, u)
                     /\ m_by_type' = InsertByType(hp, m_by_type, u)
                     /\ m_by_uuid' = InsertByUuid(m_by_uuid, u)
                     /\ m_incoming' = InsertIncoming(hp, m_incoming, u)
                     /\ last' = TensorCall(op, u, obj, u)

add_tensor_node(t, n) == AddTensor("add_tensor_node", Node(t, n))
add_tensor_link(t, out) == AddTensor("add_tensor_link", Link(t, out))

AddTensorNode == (\E t \in NodeTypes, n \in Names : add_tensor_node(t, n)) /\ UNCHANGED threads
AddTensorLink == (\E t \in LinkTypes, out \in OutSeqs : add_tensor_link(t, out)) /\ UNCHANGED threads

NextTensor == AddTensorNode \/ AddTensorLink \/ RemoveAtom \/ Clear

SpecTensor == Init /\ [][NextTensor]_vars

\* ---- properties of the store ---------------------------------------------
AddOps == {"add_node", "add_link", "add_atom"}
IsLink(h) == ~heap[h].is_node
\* some stored atom is structurally equal to the atom object r
Stored(r) == \E x \in m_atoms : AtomEq(heap, heap[x], r)

NoDuplicates == \A x, y \in m_atoms : AtomEqual(heap, x, y) => x = y

\* C1: the store never holds two structurally equal atoms; an add returns
\* the stored atom equal to its key, leaves size() unchanged when the key
\* was present and raises it by exactly 1 when it was not.
C1_DeduplicatingInsertion ==
    /\ NoDuplicates
    /\ [][/\ NoDuplicates'
          /\ (last'.op \in AddOps /\ last'.arg # NULL) =>
                /\ last'.ret \in m_atoms'
                /\ AtomEq(heap', heap'[last'.ret], last'.key)
                /\ IF Stored(last'.key)
                     THEN last'.ret \in m_atoms /\ size' = size
                     ELSE size' = size + 1]_vars

\* a second add_node of a stored key returned the first atom
C1_Witness ==
    /\ last.op = "add_node"
    /\ last.ret # last.arg
    /\ size = 1

\* C2: for every stored atom X and stored link L, L is in get_incoming(X)
\* if and only if X occurs in L.outgoing().
C2_IncomingInvariant ==
    \A X \in m_atoms, L \in m_atoms :
        IsLink(L) =>
            ((\E y \in get_incoming(X) : AtomEqual(heap, y, L))
               <=> (\E i \in 1..Len(heap[L].outgoing) : AtomEqual(heap, heap[L].outgoing[i], X)))

\* C4: get_atom(u) returns a non-null atom A if and only if A is in the
\* store and A.uuid() = u.
C4_UuidIndexAgrees ==
    \A u \in DOMAIN heap \cup DOMAIN m_by_uuid : (get_atom(u) # NULL) <=> (u \in m_atoms /\ get_atom(u) = u)

\* C5: when remove_atom returns true, size() drops by exactly 1, every other
\* stored atom stays stored, and the removed atom object is still alive with
\* the type, name and outgoing sequence it had.
C5_SoftDelete ==
    [][(last'.op = "remove_atom" /\ last'.ok) =>
          /\ size' = size - 1
          /\ \A x \in m_atoms : ~AtomEqual(heap, x, last'.arg) => x \in m_atoms'
          /\ last'.ret \in m_atoms /\ last'.ret \notin m_atoms'
          /\ last'.ret \in DOMAIN heap' /\ heap'[last'.ret] = heap[last'.ret]]_vars

\* a link was removed while an atom of its outgoing sequence is stored
C5_Witness ==
    /\ last.op = "remove_atom" /\ last.ok
    /\ IsLink(last.ret)
    /\ Targets(heap[last.ret]) \cap m_atoms # {}

\* C6: remove_atom returns true exactly when a structurally equal atom was
\* stored; when it returns false (null or absent) the primary set and the
\* type, uuid and incoming indices are unchanged.
C6_RemoveMissIsNoOp ==
    [][last'.op = "remove_atom" =>
          /\ last'.ok <=> (last'.arg # NULL /\ \E x \in m_atoms : AtomEqual(heap, x, last'.arg))
          /\ ~last'.ok => UNCHANGED store]_vars

\* remove_atom of an absent atom returned false while the store held an atom
C6_Witness ==
    /\ last.op = "remove_atom" /\ ~last.ok
    /\ last.arg # NULL
    /\ m_by_uuid # << >>
    /\ last.arg \in DOMAIN m_by_uuid
\* ---- properties of the store under concurrent callers --------------------
Quiescent == \A t \in Threads : pc[t] = "idle"

\* C3: whatever the interleaving of concurrent add_node calls, all calls for
\* one (type,name) receive the same handle, the atom returned is stored, and
\* once all calls have returned the store holds exactly one atom per distinct
\* key requested.
C3_ConcurrentDedup ==
    /\ \A c1, c2 \in returned : AtomEq(heap, c1.key, c2.key) => c1.ret = c2.ret
    /\ \A c \in returned : c.ret \in m_atoms /\ AtomEq(heap, heap[c.ret], c.key)
    /\ Quiescent => /\ NoDuplicates
                    /\ size = Cardinality({c.ret : c \in returned})

\* all the add_node calls the bound allows have returned, for one key
C3_Witness ==
    /\ Quiescent
    /\ counter = MaxUuid + 1
    /\ size = 1
    /\ Cardinality(returned) = 1

\* a mutation has updated some of the four indices and not yet all of them
MidMutation(t) ==
    pc[t] \in {"add_by_type", "add_by_uuid", "add_incoming",
               "rm_by_uuid", "rm_incoming", "rm_primary",
               "clear_by_type", "clear_by_uuid", "clear_incoming"}

\* what a completed mutation leaves: every stored atom is in its type bucket
\* and in the uuid index, every type bucket holds stored atoms only, and
\* every stored link is in the incoming set of each of its targets
IndicesAgree ==
    /\ m_atoms = UNION {m_by_type[ty] : ty \in AtomTypes}
    /\ \A x \in m_atoms : x \in m_by_type[heap[x].type] /\ get_atom(x) = x
    /\ \A L \in m_atoms : IsLink(L) =>
          \A x \in Targets(heap[L]) : \E y \in get_incoming(x) : AtomEqual(heap, y, L)

\* C7: a query never observes a partially applied mutation: while a reader
\* holds the shared lock no add_atom, remove_atom or clear is under way and
\* the indices agree with the primary set.
C7_MutationsAtomicForReaders ==
    \A r \in Threads :
        pc[r] = "reading" => /\ \A w \in Threads : ~MidMutation(w)
                             /\ IndicesAgree

\* a query runs while a writer waits for the lock on a store that holds a link
C7_Witness ==
    /\ \E r \in Threads : pc[r] = "reading"
    /\ \E w \in Threads : pc[w] \in {"add_lock", "rm_lock"}
    /\ \E L \in m_atoms : IsLink(L)
\* ---- properties of the pattern matcher -----------------------------------
\* the last call was match with a Link as the pattern body
LinkBodyMatched == last.op = "match" /\ last.arg # NULL /\ ~last.key.is_node

\* the positions of the link object P that hold a variable
VarPositions(P) == {i \in 1..Len(P.outgoing) : IsVariable(heap, P.outgoing[i])}
VarAt(P, i) == heap[P.outgoing[i]].name
FirstPosition(P, v) ==
    CHOOSE i \in VarPositions(P) :
        VarAt(P, i) = v /\ \A j \in VarPositions(P) : VarAt(P, j) = v => i <= j

\* the stored link L has the type and arity of P, equals P at every
\* non-variable position and carries equal atoms at the positions of one variable
Fits(P, L) ==
    /\ ~heap[L].is_node
    /\ heap[L].type = P.type
    /\ Len(heap[L].outgoing) = Len(P.outgoing)
    /\ \A i \in (1..Len(P.outgoing)) \ VarPositions(P) :
          AtomEqual(heap, P.outgoing[i], heap[L].outgoing[i])
    /\ \A i, j \in VarPositions(P) :
          VarAt(P, i) = VarAt(P, j) => AtomEqual(heap, heap[L].outgoing[i], heap[L].outgoing[j])

BindingsOf(P, L) ==
    [v \in {VarAt(P, i) : i \in VarPositions(P)} |-> heap[L].outgoing[FirstPosition(P, v)]]

\* C8: for a Link body, match returns exactly one binding set per stored
\* link that fits the body, and no other; the answer is a function of the
\* set of stored atoms alone.
C8_LinkPatternCompleteness ==
    LinkBodyMatched =>
        /\ last.ok
        /\ last.results =
             {Result(L, BindingsOf(last.key, L)) : L \in {x \in m_atoms : Fits(last.key, x)}}

\* the same, in the runs where no candidate holds an empty handle at the
\* position of a variable that occurs again
C8_CompleteWithoutEmptyHandles ==
    (/\ LinkBodyMatched
     /\ \A c \in LinkCandidates(last.key) : ~HitsUB(heap, last.key, heap[c])) =>
        /\ last.ok
        /\ last.results =
             {Result(L, BindingsOf(last.key, L)) : L \in {x \in m_atoms : Fits(last.key, x)}}

\* C9: every binding returned by match binds a variable declared with a
\* type other than ATOM to an atom of exactly that type.
C9_TypeConstraintHonoured ==
    last.op = "match" =>
        \A r \in last.results : \A v \in DOMAIN r.bindings :
            (v \in DOMAIN last.pvars /\ last.pvars[v] # ATOM /\ r.bindings[v] # NULL)
                => heap[r.bindings[v]].type = last.pvars[v]

\* unification of the template p with the atom c under the bindings b, with
\* variables at any depth: the set holding the extended bindings, or empty
RECURSIVE DeepUnify(_, _, _, _), DeepUnifySeq(_, _, _, _, _)
DeepUnify(hp, p, c, b) ==
    IF IsVariable(hp, p)
      THEN IF hp[p].name \in DOMAIN b
             THEN IF AtomEqual(hp, b[hp[p].name], c) THEN {b} ELSE {}
             ELSE {(hp[p].name :> c) @@ b}
    ELSE IF p = NULL \/ c = NULL
      THEN IF p = c THEN {b} ELSE {}
    ELSE IF hp[p].is_node
      THEN IF AtomEq(hp, hp[p], hp[c]) THEN {b} ELSE {}
    ELSE IF hp[c].is_node \/ hp[c].type # hp[p].type \/ Len(hp[c].outgoing) # Len(hp[p].outgoing)
      THEN {}
    ELSE DeepUnifySeq(hp, hp[p].outgoing, hp[c].outgoing, 1, b)

DeepUnifySeq(hp, ps, cs, i, b) ==
    IF i > Len(ps) THEN {b}
    ELSE UNION {DeepUnifySeq(hp, ps, cs, i + 1, b2) : b2 \in DeepUnify(hp, ps[i], cs[i], b)}

\* C10: a variable inside an inner link of the body is unified like one at a
\* top-level position: every stored link that unifies with the body, its
\* variables at any depth, is reported with those bindings.
C10_NestedVariablesUnified ==
    (LinkBodyMatched /\ last.ok) =>
        \A L \in m_atoms : \A b \in DeepUnify(heap, last.arg, L, << >>) :
            Result(L, b) \in last.results

\* ---- properties of the matcher called with a callback --------------------
\* what the callback receives when it never asks to stop: one invocation per
\* candidate of a variable body, one for a stored node body, one per stored
\* link that fits a link body
AllResults(pv, body) ==
    IF body = NULL THEN {}
    ELSE IF IsVariable(heap, body)
      THEN {Result(c, (heap[body].name :> c)) : c \in VariableCandidates(pv, heap[body].name)}
    ELSE IF heap[body].is_node
      THEN {Result(c, << >>) : c \in {x \in m_atoms : AtomEq(heap, heap[x], heap[body])}}
    ELSE {Result(L, BindingsOf(heap[body], L)) : L \in {x \in m_atoms : Fits(heap[body], x)}}

\* C11: the callback is never invoked again after it returned false, and a
\* call whose callback has not returned false ends having invoked it for
\* every candidate, whether the body is a variable, a node or a link.
C11_CooperativeCancellation ==
    last.op = "match_callback" =>
        /\ last.calls = Cardinality(last.results)
        /\ last.stop # 0 => last.calls <= last.stop
        /\ (last.stop = 0 \/ last.calls < last.stop) =>
              /\ last.ok
              /\ last.results = AllResults(last.pvars, last.arg)

\* the same, in the calls where no candidate holds an empty handle at the
\* position of a variable that occurs again
C11_CancellationWithoutEmptyHandles ==
    (/\ last.op = "match_callback"
     /\ last.arg # NULL
     /\ \A c \in LinkCandidates(last.key) : ~HitsUB(heap, last.key, heap[c])) =>
        /\ last.calls = Cardinality(last.results)
        /\ last.stop # 0 => last.calls <= last.stop
        /\ (last.stop = 0 \/ last.calls < last.stop) =>
              /\ last.ok
              /\ last.results = AllResults(last.pvars, last.arg)

\* ---- properties of for_each under concurrent callers ---------------------
\* the traversal of r is between two visitor invocations
MidScan(r) ==
    pc[r] = "visiting" /\ loc[r].visited # {} /\ loc[r].visited # m_atoms

\* w has entered add_atom or remove_atom and requests the unique lock
WantsUnique(w) == pc[w] \in {"add_lock", "rm_lock"}

\* C12: a for_each traversal is not an atomic snapshot: between two visitor
\* invocations of one for_each call the add_atom or remove_atom of a
\* concurrent writer can take effect, that is, a writer that requests the
\* lock then, the mutex being held by no other call, is granted it.
C12_WriterTakesEffectMidScan ==
    \A r \in TraverseThreads : \A w \in TraverseThreads \ {r} :
        (/\ MidScan(r) /\ WantsUnique(w)
         /\ m_mutex.writer = NULL /\ m_mutex.readers \subseteq {r}) => CanLockUnique

\* C12, as amended: a for_each traversal scans under one shared lock: from
\* its first visitor invocation to its return no add_atom or remove_atom
\* takes effect, and it returns having visited exactly the atoms that were
\* stored when it took the lock.
C12_ForEachScansUnderOneLock ==
    [][\A t \in TraverseThreads :
          /\ pc[t] = "visiting" => UNCHANGED store
          /\ pc'[t] = "visiting" => m_atoms' = loc'[t].entry /\ loc'[t].visited \subseteq m_atoms'
          /\ (pc[t] = "visiting" /\ pc'[t] = "idle") => loc[t].visited = loc[t].entry]_vars

\* a traversal is between two visitor invocations while a writer waits for
\* the lock
C12_Witness ==
    \E r \in TraverseThreads : \E w \in TraverseThreads \ {r} :
        /\ MidScan(r)
        /\ WantsUnique(w)
        /\ m_mutex.readers = {r}

\* C14: a visitor that calls a mutating operation on the AtomSpace being
\* traversed never gets past that call's lock request, and the traversal
\* never returns: its thread keeps the shared lock for ever.
C14_ReentrantMutationNeverCompletes ==
    [][\A t \in TraverseThreads :
          (t \in m_mutex.readers /\ WantsUnique(t)) =>
              /\ pc'[t] = pc[t]
              /\ t \in m_mutex'.readers
              /\ loc'[t] = loc[t]]_vars

\* a visitor has called remove_atom while no other thread holds the mutex
\* or is inside a call
C14_Witness ==
    \E t \in TraverseThreads :
        /\ pc[t] = "rm_lock"
        /\ m_mutex = [writer |-> NULL, readers |-> {t}]
        /\ \A o \in Threads \ {t} : pc[o] = "idle"

\* ---- properties of match under concurrent callers ------------------------
\* m is inside a match call, before or between its callback invocations
Matching(m) == pc[m] \in {"match_index", "match_deliver"}

\* C13: a match holds no lock between its index accesses and its callback
\* invocations, so a writer on another thread that requests the lock in
\* between, the mutex being held by no other call, is granted it and its
\* add_atom or remove_atom takes effect during the match.
C13_MatchIsWeaklyConsistent ==
    \A m \in TraverseThreads : \A w \in TraverseThreads \ {m} :
        (/\ Matching(m) /\ WantsUnique(w)
         /\ m_mutex.writer = NULL /\ m_mutex.readers \subseteq {m}) => CanLockUnique

\* one match call has handed its callback a binding taken from a link that
\* had been removed from the store, and a binding to an atom that was added
\* after match was called
C13_Witness ==
    \E m \in TraverseThreads :
        /\ pc[m] = "match_deliver"
        /\ \E d \in loc[m].delivered : ~d.stored /\ IsLink(d.cand)
        /\ \E d \in loc[m].delivered : d.cand \notin loc[m].at_call

\* ---- properties of link identity -----------------------------------------
\* what identifies a link: its type and its outgoing atoms in their order
LinkKey(r) == <<r.type, [i \in 1..Len(r.outgoing) |-> heap[r.outgoing[i]]]>>

\* C15: a link is identified by its type and the ordered sequence of its
\* outgoing atoms: adding a link stores a new atom (size() grows by 1)
\* unless a link of the same type with the same atoms in the same order is
\* stored, in which case that one is returned; so {a,b} and {b,a}, and links
\* of different type or arity over the same atoms, occupy different slots.
C15_LinkIdentityOrderSensitive ==
    [][(last'.op = "add_atom" /\ ~last'.key.is_node) =>
          LET same == {x \in m_atoms : IsLink(x) /\ LinkKey(heap[x]) = LinkKey(last'.key)}
          IN  IF same = {}
                THEN /\ size' = size + 1
                     /\ last'.ret = last'.arg /\ last'.ret \in m_atoms'
                ELSE /\ size' = size
                     /\ last'.ret \in same]_vars

\* the ListLinks over (a,b) and over (b,a), the InheritanceLink over (a,b)
\* and the ListLink over (a) are stored together, and an add of a second
\* object for the ListLink over (a,b) has returned the stored one
C15_Witness ==
    /\ last.op = "add_atom" /\ last.ret # last.arg
    /\ LinkKey(last.key) = <<LIST_LINK, <<Node(CONCEPT_NODE, "a"), Node(CONCEPT_NODE, "b")>> >>
    /\ {LinkKey(heap[x]) : x \in {y \in m_atoms : IsLink(y)}} =
          { <<LIST_LINK, <<Node(CONCEPT_NODE, "a"), Node(CONCEPT_NODE, "b")>> >>,
            <<LIST_LINK, <<Node(CONCEPT_NODE, "b"), Node(CONCEPT_NODE, "a")>> >>,
            <<INHERITANCE_LINK, <<Node(CONCEPT_NODE, "a"), Node(CONCEPT_NODE, "b")>> >>,
            <<LIST_LINK, <<Node(CONCEPT_NODE, "a")>> >> }

\* ---- properties of the store: null arguments and lookups -----------------
\* C16: add_atom(null) returns null and remove_atom(null) returns false,
\* both leaving the primary set and the three indices unchanged; in every
\* state contains(null) is false and get_incoming(null) and
\* get_incoming_by_type(null, t) are empty.
C16_NullArgumentsAreNoOps ==
    [][/\ (last'.op \in {"add_atom", "remove_atom"} /\ last'.arg = NULL) =>
            /\ last'.ret = NULL /\ ~last'.ok
            /\ UNCHANGED store
       /\ ~contains(NULL)' /\ get_incoming(NULL)' = {}
       /\ \A t \in AtomTypes : get_incoming_by_type(NULL, t)' = {}]_vars

\* add_atom(null) was called on a store that holds a link and its target
C16_Witness ==
    /\ last.op = "add_atom" /\ last.arg = NULL
    /\ \E L \in m_atoms : IsLink(L) /\ Targets(heap[L]) \cap m_atoms # {}
    /\ m_incoming # << >>

\* C17: find_links_to(t, null) and find_links_containing(t, null) return
\* an empty result, whatever the store holds.
C17_NullFindersReturnEmpty ==
    (last.op \in {"find_links_to", "find_links_containing"} /\ last.arg = NULL) =>
        last.ok /\ last.results = {}

\* find_links_to(t, null) returns an empty result, whatever the store holds
C17_FindLinksToNullIsEmpty ==
    (last.op = "find_links_to" /\ last.arg = NULL) => last.ok /\ last.results = {}

\* C18: get_node and get_link return the stored atom equal to the key when
\* one is stored and null otherwise; get_atom(u) returns null when no stored
\* atom has the uuid u; no lookup changes the store.
C18_CanonicalLookup ==
    [][/\ last'.op \in {"get_node", "get_link"} =>
            /\ UNCHANGED store
            /\ IF Stored(last'.key)
                 THEN last'.ret \in m_atoms /\ AtomEq(heap, heap[last'.ret], last'.key)
                 ELSE last'.ret = NULL
       /\ last'.op = "get_atom" =>
            /\ UNCHANGED store
            /\ last'.uuid \notin m_atoms => last'.ret = NULL]_vars

\* the part of C18 on get_node and get_link
C18_KeyLookup ==
    [][last'.op \in {"get_node", "get_link"} =>
            /\ UNCHANGED store
            /\ IF Stored(last'.key)
                 THEN last'.ret \in m_atoms /\ AtomEq(heap, heap[last'.ret], last'.key)
                 ELSE last'.ret = NULL]_vars

\* C19: get_atoms_by_type(t) returns exactly the stored atoms whose type is
\* t, whatever the subclasses flag (so nothing for the base type NODE), and
\* size(t) is the length of that result.
C19_ExactTypeOnly ==
    /\ \A t \in AtomTypes \cup {NODE} :
          /\ get_atoms_by_type(t) = {x \in m_atoms : heap[x].type = t}
          /\ size_of_type(t) = Cardinality({x \in m_atoms : heap[x].type = t})
    /\ last.op = "get_atoms_by_type" =>
          /\ last.results = {x \in m_atoms : heap[x].type = last.type}
          /\ last.ret = Cardinality(last.results)

\* get_atoms_by_type(NODE, true) returned nothing from a store that holds
\* two ConceptNodes and links
C19_Witness ==
    /\ last.op = "get_atoms_by_type" /\ last.type = NODE /\ last.pvars = <<TRUE>>
    /\ last.results = {}
    /\ size_of_type(CONCEPT_NODE) = Cardinality(Names)
    /\ size_of_type(LIST_LINK) > size_of_type(INHERITANCE_LINK)

\* ---- properties of clear --------------------------------------------------
\* clear() has emptied some of the four indices and not yet all of them
MidClear(t) == pc[t] \in {"clear_by_type", "clear_by_uuid", "clear_incoming"}

\* C20: when clear() returns, size() is 0, get_atom, get_node and get_link
\* find nothing for any uuid or key, get_atoms_by_type(t) is empty for every
\* t and get_incoming(x) for every atom x, and every atom object that was
\* alive still is; a reader never holds its lock while a clear has emptied
\* only some of the indices.
C20_ClearEmptiesAtomically ==
    [][/\ \A t \in Threads : (MidClear(t) /\ pc'[t] = "idle") =>
              /\ size' = 0
              /\ \A u \in 1..counter : get_atom(u)' = NULL
              /\ \A h \in DOMAIN heap : FindKey(heap[h])' = NULL /\ get_incoming(h)' = {}
              /\ \A ty \in AtomTypes : get_atoms_by_type(ty)' = {}
              /\ heap' = heap
       /\ \A r \in Threads : pc'[r] = "reading" => \A w \in Threads : ~MidClear(w)']_vars

\* a clear of a store that held a link has emptied the primary set, the type
\* index and the uuid index and is about to empty the incoming index
C20_Witness ==
    \E t \in Threads :
        /\ pc[t] = "clear_incoming"
        /\ m_atoms = {} /\ m_by_uuid = << >>
        /\ \E x \in DOMAIN m_incoming : m_incoming[x] # {}
\* ---- properties of atom construction -------------------------------------
\* C21: whenever a thread's constructor draws a uuid, with or without other
\* constructors running and whatever the state of the AtomSpace lock, the
\* uuid is greater than the uuid of every atom whose construction has
\* completed (stored, removed or destroyed) and differs from the uuid of
\* every atom still under construction on another thread.
C21_UuidsUniqueAndIncreasing ==
    [][\A t \in TraverseThreads :
          (pc[t] = "idle" /\ pc'[t] = "ctor") =>
              /\ \A u \in last.results \cup DOMAIN heap : u < loc'[t].arg
              /\ \A o \in TraverseThreads \ {t} :
                    pc[o] = "ctor" => loc[o].arg # loc'[t].arg]_vars

\* two constructors run at the same time, no lock being held, after an atom
\* was constructed, stored and removed
C21_Witness ==
    /\ \A t \in TraverseThreads : pc[t] = "ctor"
    /\ m_mutex.writer = NULL /\ m_mutex.readers = {}
    /\ \E u \in last.results : u \in Published /\ ~contains(u)
    /\ \A u \in last.results : \A t \in TraverseThreads : u < loc[t].arg

Contains(name, s) ==
    \E i \in 0..Len(name) : \E j \in i..Len(name) : SubSeq(name, i + 1, j) = s
EndsWith(name, s) == \E i \in 0..Len(name) : SubSeq(name, i + 1, Len(name)) = s
StartsWith(name, s) == \E i \in 0..Len(name) : SubSeq(name, 1, i) = s
Wildcard(name, p) ==
    CASE p = <<"*">> -> TRUE
      [] p # <<"*">> /\ p # << >> /\ Head(p) = "*" /\ p[Len(p)] = "*" ->
            Contains(name, SubSeq(p, 2, Len(p) - 1))
      [] p # <<"*">> /\ p # << >> /\ Head(p) = "*" /\ p[Len(p)] # "*" ->
            EndsWith(name, Tail(p))
      [] p # <<"*">> /\ p # << >> /\ Head(p) # "*" /\ p[Len(p)] = "*" ->
            StartsWith(name, SubSeq(p, 1, Len(p) - 1))
      [] OTHER -> name = p
\* the stored nodes of exactly the type t
NodesOfType(t) == {x \in m_atoms : heap[x].is_node /\ heap[x].type = t}

\* C23: find_nodes(type, p) returns exactly the stored nodes of that type
\* whose name matches p: all of them for "*", those containing s for "*s*",
\* ending with s for "*s", starting with s for "s*", and the node named p
\* when p neither starts nor ends with '*'.
C23_WildcardMatching ==
    last.op = "find_nodes" =>
        last.results = {x \in NodesOfType(last.type) : Wildcard(heap[x].name, last.pvars)}

\* C23, for the types no link carries: the same statement holds
C23_WildcardOverNodeTypes ==
    (last.op = "find_nodes" /\ last.type \in {CONCEPT_NODE, PREDICATE_NODE}) =>
        last.results = {x \in NodesOfType(last.type) : Wildcard(heap[x].name, last.pvars)}

\* C23, for every pattern but "*": the same statement holds for every type
C23_WildcardOverProperPatterns ==
    (last.op = "find_nodes" /\ last.pvars # <<"*">>) =>
        last.results = {x \in NodesOfType(last.type) : Wildcard(heap[x].name, last.pvars)}

\* ---- properties of TruthValue --------------------------------------------
\* 0 <= x <= 1
InUnit(x) == DGeq(x, Num(0)) /\ DGeq(Num(1), x)
InRange(tv) == InUnit(tv.m_strength) /\ InUnit(tv.m_confidence)

\* C24: every truth value obtained from the constructor, the setters,
\* from_count, merge, revision, negation, conjunction or disjunction, on
\* operands obtained the same way, has strength and confidence in [0,1].
C24_TruthValuesInRange ==
    last.op # "init" => InRange(last.ret)

\* C24, without revision on an operand of confidence 1 and without
\* from_count on a count that is not finite: the same statement holds
C24_InRangeOnFiniteCounts ==
    LET finite(tv) == ~DGeq(tv.m_confidence, Num(1))
    IN  (/\ last.op # "init"
         /\ InRange(last.tv) /\ InRange(last.other)
         /\ last.op = "revision" => finite(last.tv) /\ finite(last.other)
         /\ last.op = "from_count" => ~IsInf(last.y) /\ ~IsNaN(last.y))
        => InRange(last.ret)

\* the reference result of revision for the counts c1 and c2 of the operands
RevisionAgrees(tv, other, k, ret) ==
    LET c1 == count(tv, k)
        c2 == count(other, k)
    IN  IF DEq(c1, Num(0)) /\ DEq(c2, Num(0))
          THEN ret = TruthValueDefault
          ELSE /\ DEq(count(ret, k), DAdd(c1, c2))
               /\ DEq(DMul(ret.m_strength, DAdd(c1, c2)),
                      DAdd(DMul(tv.m_strength, c1), DMul(other.m_strength, c2)))
               /\ DEq(DMul(ret.m_confidence, DAdd(DAdd(c1, c2), k)), DAdd(c1, c2))

\* C25: revision(a, b, k) returns the default truth value when both counts
\* are 0; otherwise the count of the result is count(a) + count(b), its
\* strength the count-weighted average of the strengths and its confidence
\* newcount / (newcount + k); revision is commutative; from_count(0.7, 800)
\* is (0.7, 0.5), and from_count(0.8, 400) revised with from_count(0.6, 400)
\* is (0.7, 0.5).
C25_RevisionCombinesEvidence ==
    /\ last.op = "revision" =>
          /\ RevisionAgrees(last.tv, last.other, last.x, last.ret)
          /\ last.ret = revision(last.other, last.tv, last.x)
    /\ from_count(Frac(7, 10), Num(800), DEFAULT_K) = [m_strength |-> Frac(7, 10), m_confidence |-> Frac(1, 2)]
    /\ revision(from_count(Frac(4, 5), Num(400), DEFAULT_K), from_count(Frac(3, 5), Num(400), DEFAULT_K), DEFAULT_K)
          = [m_strength |-> Frac(7, 10), m_confidence |-> Frac(1, 2)]

\* C25, for operands in [0,1] of confidence below 1: the same statement
\* holds
C25_RevisionOnFiniteCounts ==
    LET finite(tv) == InRange(tv) /\ ~DGeq(tv.m_confidence, Num(1))
    IN  /\ (last.op = "revision" /\ finite(last.tv) /\ finite(last.other)) =>
              /\ RevisionAgrees(last.tv, last.other, last.x, last.ret)
              /\ last.ret = revision(last.other, last.tv, last.x)
        /\ from_count(Frac(7, 10), Num(800), DEFAULT_K) = [m_strength |-> Frac(7, 10), m_confidence |-> Frac(1, 2)]
        /\ revision(from_count(Frac(4, 5), Num(400), DEFAULT_K), from_count(Frac(3, 5), Num(400), DEFAULT_K), DEFAULT_K)
              = [m_strength |-> Frac(7, 10), m_confidence |-> Frac(1, 2)]

\* the smaller of two doubles, by its defining property
IsSmaller(c, a, b) == c \in {a, b} /\ DGeq(a, c) /\ DGeq(b, c)

\* C26: for operands in [0,1], conjunction has strength a*b and confidence
\* min(ca, cb), disjunction has strength a + b - a*b and confidence
\* min(ca, cb), negation has strength 1 - a and the same confidence; negation
\* is an involution, a OR b equals NOT(NOT a AND NOT b), and
\* (0.8, 0.6) AND (0.6, 0.4) is (0.48, 0.4).
C26_LogicalOperators ==
    LET a == last.tv
        b == last.other
        r == last.ret
    IN  /\ (last.op = "conjunction" /\ InRange(a) /\ InRange(b)) =>
              /\ DEq(r.m_strength, DMul(a.m_strength, b.m_strength))
              /\ IsSmaller(r.m_confidence, a.m_confidence, b.m_confidence)
        /\ (last.op = "disjunction" /\ InRange(a) /\ InRange(b)) =>
              /\ DEq(DAdd(r.m_strength, DMul(a.m_strength, b.m_strength)),
                     DAdd(a.m_strength, b.m_strength))
              /\ IsSmaller(r.m_confidence, a.m_confidence, b.m_confidence)
              /\ r = negation(conjunction(negation(a), negation(b)))
        /\ (last.op = "negation" /\ InRange(a)) =>
              /\ DEq(DAdd(r.m_strength, a.m_strength), Num(1))
              /\ r.m_confidence = a.m_confidence
              /\ negation(r) = a
        /\ conjunction(TruthValue(Frac(4, 5), Frac(3, 5)), TruthValue(Frac(3, 5), Frac(2, 5)))
              = [m_strength |-> Frac(12, 25), m_confidence |-> Frac(2, 5)]

\* (0.8, 0.6) AND (0.6, 0.4) has been computed and is (0.48, 0.4)
C26_Witness ==
    /\ last.op = "conjunction"
    /\ last.tv = [m_strength |-> Frac(4, 5), m_confidence |-> Frac(3, 5)]
    /\ last.other = [m_strength |-> Frac(3, 5), m_confidence |-> Frac(2, 5)]
    /\ last.ret = [m_strength |-> Frac(12, 25), m_confidence |-> Frac(2, 5)]

\* ---- properties of ConcurrentQueue ---------------------------------------
\* the items delivered, followed by those still queued, are the items pushed
Fifo == served.pushed = served.popped \o m_queue

\* C27: in every interleaving of push, pop and try_pop (and cancel), the
\* items handed to consumers, in the order the pops were served, followed by
\* the items still queued, are the pushed items in the order the pushes were
\* served, so no item is lost or delivered twice and size() is the number of
\* pushes minus the number of delivered items; try_pop on an empty queue
\* returns no item and does not block.
C27_FifoWithoutLossOrDuplication ==
    [][/\ Fifo'
       /\ queue_size' = Len(served'.pushed) - Len(served'.popped)
       /\ \A t \in Threads :
             (m_queue = << >> /\ loc'[t] # loc[t] /\ loc'[t].op = "try_pop") =>
                 (loc'[t].ret = NullOpt /\ pc'[t] = "idle" /\ UNCHANGED queue)]_vars

\* three items were pushed, two of them were delivered in order, one by
\* pop and one by try_pop on another thread, and the third is queued
C27_Witness ==
    /\ Len(served.pushed) = MaxItems
    /\ served.popped = <<1, 2>> /\ m_queue = <<3>>
    /\ \E t \in Threads : \E u \in Threads \ {t} :
          /\ loc[t] = QCall("pop", Item(1))
          /\ loc[u] = QCall("try_pop", Item(2))

\* thread t is blocked in pop()
Blocked(t) == pc[t] = "pop_wait"
\* a pop() called on an empty, cancelled queue returns at once
PopAfterCancelDoesNotBlock ==
    [][\A t \in Threads :
          (pc[t] = "idle" /\ m_cancelled /\ m_queue = << >>
           /\ loc'[t] # loc[t] /\ loc'[t].op = "pop") =>
              (pc'[t] = "idle" /\ loc'[t].ret = QueueCancelled)]_vars

\* C28 as stated: a thread blocked in pop() when the queue is cancelled
\* returns, reporting cancellation; a pop() on an empty cancelled queue does
\* not block; a pop() blocked on an empty queue that is not cancelled returns
\* the item pushed next.
C28_CancelUnblocksConsumers ==
    /\ \A t \in Threads :
          (Blocked(t) /\ m_cancelled /\ m_queue = << >>)
              ~> (pc[t] = "idle" /\ loc[t] = QCall("pop", QueueCancelled))
    /\ PopAfterCancelDoesNotBlock
    /\ \A t \in Threads : \A x \in 1..MaxItems :
          (Blocked(t) /\ ~m_cancelled /\ m_queue = <<x>>)
              ~> (pc[t] = "idle" /\ loc[t] = QCall("pop", Item(x)))

\* C28, amended: a thread blocked in pop() when the queue is cancelled
\* returns, with the cancellation or with an item that was pushed before it
\* ran again; a pop() on an empty cancelled queue does not block; the item
\* pushed next onto an empty queue on which pops are blocked is delivered to
\* one consumer, and a blocked pop that returns an item returns one that was
\* pushed after it blocked.
C28_CancelUnblocksOrDelivers ==
    /\ \A t \in Threads : (Blocked(t) /\ m_cancelled) ~> (pc[t] = "idle")
    /\ PopAfterCancelDoesNotBlock
    /\ \A x \in 1..MaxItems :
          ((\E t \in Threads : Blocked(t)) /\ ~m_cancelled /\ m_queue = <<x>>)
              ~> (\E i \in 1..Len(served.popped) : served.popped[i] = x)
    /\ [][\A t \in Threads :
             (Blocked(t) /\ pc'[t] = "idle") =>
                 \/ loc'[t] = QCall("pop", QueueCancelled) /\ m_cancelled
                 \/ /\ loc'[t] = QCall("pop", Item(Head(m_queue)))
                    /\ Head(m_queue) > loc[t].ret.item]_vars

\* a pop that blocked on the empty queue has returned the item pushed next,
\* and another pop has blocked and has returned reporting the cancellation
C28_Witness ==
    /\ m_cancelled /\ m_queue = << >>
    /\ served.pushed = <<1>> /\ served.popped = <<1>>
    /\ \E t \in Threads : \E u \in Threads \ {t} :
          /\ pc[t] = "idle" /\ loc[t] = QCall("pop", Item(1))
          /\ pc[u] = "idle" /\ loc[u] = QCall("pop", QueueCancelled)
    /\ m_condition = [waiting |-> {}, notified |-> {}]

\* ---- C29 -----------------------------------------------------------------
\* C29: no stale incoming entries. After any sequence of mutations every link
\* returned by get_incoming(X), for any atom X, is contained in the store;
\* and once remove_atom has returned true for a link, whichever structurally
\* equal handle was passed, the link that was stored is returned by no
\* get_incoming call (until it is inserted again).
C29_NoStaleIncoming ==
    /\ \A X \in Handles : get_incoming(X) \subseteq m_atoms
    /\ (last.op = "remove_atom" /\ last.ok /\ ~heap[last.ret].is_node)
          => \A X \in Handles : last.ret \notin get_incoming(X)

\* the same for a removal through the stored handle itself, or through a
\* link whose outgoing handles are the objects the stored link points to
C29_NoStaleIncomingOnSameTargets ==
    (last.op = "remove_atom" /\ last.ok /\ ~heap[last.ret].is_node
        /\ heap[last.arg].outgoing = heap[last.ret].outgoing)
       => \A X \in Handles : last.ret \notin get_incoming(X)

\* ---- C30 -----------------------------------------------------------------
RECURSIVE SumOver(_, _)
SumOver(f(_), S) ==
    IF S = {} THEN 0 ELSE LET x == CHOOSE y \in S : TRUE IN f(x) + SumOver(f, S \ {x})

\* C30: the type index is a partition of the primary set. After any sequence
\* of mutations get_atoms_by_type(t) is exactly the set of stored atoms of
\* type t, the sum of size(t) over all t equals size(), and get_stats()
\* reports total_atoms = total_nodes + total_links = the sum of the by_type
\* counts, with by_type[t] = size(t) for every t.
C30_TypeIndexPartition ==
    /\ \A t \in AtomTypes \cup {NODE} :
          get_atoms_by_type(t) = {a \in m_atoms : heap[a].type = t}
    /\ SumOver(size_of_type, AtomTypes \cup {NODE}) = size
    /\ last.op = "get_stats" =>
          LET stats == last.ret
              Count(t) == StatsByType(stats, t)
          IN  /\ stats.total_atoms = size
              /\ stats.total_atoms = stats.total_nodes + stats.total_links
              /\ stats.total_atoms = SumOver(Count, AtomTypes \cup {NODE})
              /\ \A t \in AtomTypes \cup {NODE} : Count(t) = size_of_type(t)

\* get_stats on a store of one node and two links of different types, after
\* the ListLink first stored (uuid 3) was removed through an equal handle and
\* inserted again as another object (uuid 5)
C30_Witness ==
    /\ last.op = "get_stats"
    /\ last.ret.total_nodes = 1 /\ last.ret.total_links = 2
    /\ StatsByType(last.ret, INHERITANCE_LINK) = 1
    /\ 5 \in m_atoms /\ 3 \notin m_atoms
    /\ 3 \in DOMAIN m_by_uuid

\* ---- C31 -----------------------------------------------------------------
\* a link object naming one atom at several places of its outgoing sequence
NamesTwice(r) ==
    \E i, j \in 1..Len(r.outgoing) :
        i < j /\ r.outgoing[i] # NULL /\ AtomEqual(heap, r.outgoing[i], r.outgoing[j])

\* C31: a link whose outgoing sequence names the same atom several times is
\* registered exactly once in that atom's incoming set: the sequence
\* get_incoming(n) returns holds the stored link once, never twice, and after
\* one remove_atom of the link it holds the link no more.
C31_RegisteredOnce ==
    /\ \A L \in m_atoms : NamesTwice(heap[L]) =>
          \A n \in Targets(heap[L]) :
              Cardinality(SeqFind(heap, get_incoming_seq(n), L)) = 1
    /\ (last.op = "remove_atom" /\ last.ok /\ last.arg = last.ret
          /\ NamesTwice(heap[last.ret])) =>
          \A n \in Targets(heap[last.ret]) : SeqFind(heap, get_incoming_seq(n), last.ret) = {}

\* the link naming the first "a" twice was stored and has been removed by
\* one remove_atom, while the link over "a" and "b" stays registered
C31_Witness ==
    /\ last.op = "remove_atom" /\ last.ok /\ last.arg = 3 /\ last.ret = 3
    /\ get_incoming_seq(1) = <<8>>
    /\ 8 \in m_atoms

\* ---- C32 -----------------------------------------------------------------
\* the candidates the claim names for a variable: the stored atoms of its
\* declared type, or every stored atom when it is undeclared or declared ATOM
DeclaredCandidates(pv, v) ==
    IF v \in DOMAIN pv /\ pv[v] # ATOM THEN {a \in m_atoms : heap[a].type = pv[v]} ELSE m_atoms

\* C32: when the body is a single unbound VariableNode, match invokes the
\* callback once per candidate, the candidates being the stored atoms of the
\* variable's declared type, or all stored atoms if it is undeclared or
\* declared ATOM; each invocation receives bindings holding exactly that
\* variable bound to the candidate, and with the collecting callback (one
\* that never stops the search) there is one such binding set per candidate.
C32_VariableBody ==
    (last.op = "match_callback" /\ last.arg # NULL /\ IsVariable(heap, last.arg)) =>
       LET v == heap[last.arg].name
           C == DeclaredCandidates(last.pvars, v)
       IN  /\ \A r \in last.results : r.cand \in C /\ r.bindings = (v :> r.cand)
           /\ last.calls = Cardinality({r.cand : r \in last.results})
           /\ (last.stop = 0 \/ last.calls < last.stop) =>
                 {r.cand : r \in last.results} = C

\* X declared a ConceptNode, matched with a callback that never stops on a
\* store of two concepts and a link: two invocations
C32_Witness ==
    /\ last.op = "match_callback" /\ last.arg = 4 /\ last.stop = 0
    /\ last.pvars = ("X" :> CONCEPT_NODE)
    /\ last.calls = 2
    /\ {1, 2, 5} \subseteq m_atoms

\* ---- C33 -----------------------------------------------------------------
\* C33: when the body is a non-variable Node, match invokes the callback
\* exactly once, with empty bindings, if an atom with that exact (type, name)
\* is in the store, and not at all otherwise; a pattern with no body yields
\* no callback and an empty result.
C33_NodeBody ==
    /\ (last.op = "match_callback" /\ last.arg = NULL) =>
          last.calls = 0 /\ last.results = {}
    /\ (last.op = "match_callback" /\ last.arg # NULL /\ heap[last.arg].is_node
          /\ ~IsVariable(heap, last.arg)) =>
          IF \E x \in m_atoms : heap[x].is_node /\ heap[x].type = heap[last.arg].type
                                   /\ heap[x].name = heap[last.arg].name
            THEN /\ last.calls = 1
                 /\ Cardinality(last.results) = 1
                 /\ \A r \in last.results : r.bindings = << >>
            ELSE last.calls = 0 /\ last.results = {}

\* the body ConceptNode Dog matched on a store holding Dog and Animal
C33_Witness ==
    /\ last.op = "match_callback" /\ last.arg = 2
    /\ last.calls = 1
    /\ {1, 2} \subseteq m_atoms

\* the body ConceptNode Dog matched on a store holding Animal only
C33_WitnessAbsent ==
    /\ last.op = "match_callback" /\ last.arg = 2
    /\ last.calls = 0
    /\ 1 \in m_atoms

\* ---- C34 -----------------------------------------------------------------
\* what match produces, on the store as it is, for the pattern of the last
\* call with its clauses left out
WithoutClauses(ub) ==
    PatternMatcher_match(set_body(AddVariables(PatternDefault, last.pvars, FALSE), last.arg), ub)

\* the pattern of the last call as it was built, clauses included
WithClauses(ub) ==
    PatternMatcher_match(
        AddClauses(set_body(AddVariables(PatternDefault, last.pvars, FALSE), last.arg),
                   last.clauses, FALSE), ub)

C34_ClausesIgnoredWhereDefined ==
    (last.op \in {"match", "execute"} /\ UBChoices(last.arg) = {"crash"}) =>
       WithoutClauses("crash") = Outcome(last.ok, last.results)

InCallback(t) == pc[t] \in {"cb_lock", "cb_body", "cb_unlock"}
HoldsLock(t) == m_mutex.writer = t \/ t \in m_mutex.readers

\* C35: match invokes the callback while the matching thread holds no
\* AtomSpace lock: the candidates were copied out under the shared lock,
\* which is released before any callback runs. So the unique lock a callback
\* requests for add_atom, remove_atom or clear is granted as soon as no other
\* thread holds the mutex, the call completes and returns to the candidate
\* loop, and the candidates reported after it are those of the copy taken
\* before the callback ran, whatever the callback did to the store.
C35_CallbacksOutsideLock ==
    [][\A t \in Matchers :
          /\ pc[t] \in {"match_deliver", "cb_lock"} => ~HoldsLock(t)
          /\ (pc[t] = "cb_lock" /\ m_mutex.writer = NULL /\ m_mutex.readers \subseteq {t})
                => ENABLED T_cb_lock(t)
          /\ (pc[t] = "cb_unlock" /\ pc'[t] # pc[t])
                => pc'[t] = "match_deliver" /\ ~HoldsLock(t)'
          /\ InCallback(t)
                => /\ loc'[t].candidates = loc[t].candidates
                   /\ loc'[t].done = loc[t].done
          /\ (pc[t] = "match_deliver" /\ pc'[t] = "match_deliver")
                => /\ loc'[t].candidates = loc[t].candidates
                   /\ loc'[t].done \ loc[t].done \subseteq loc[t].candidates
          /\ (pc[t] = "match_deliver" /\ pc'[t] = "idle")
                => loc[t].done = loc[t].candidates]_vars

\* a callback has cleared the store and returned while candidates of the
\* copy remain to be reported
C35_Witness ==
    \E t \in Matchers :
        /\ pc[t] = "match_deliver"
        /\ last.op = "clear"
        /\ m_atoms = {}
        /\ Cardinality(loc[t].done) = 1
        /\ Cardinality(loc[t].candidates) = 3

\* ---- C36 -----------------------------------------------------------------
QueryOps ==
    {"match", "find_by_type", "find_nodes", "find_links_to", "find_links_containing",
     "get_node", "get_link", "get_atom", "get_incoming", "contains", "size",
     "find_atoms", "get_stats"}

\* C36: queries never modify the store. After match (with a callback that
\* does not mutate), find_by_type, find_nodes, find_links_to,
\* find_links_containing, get_node, get_link, get_atom, get_incoming,
\* contains, size, find_atoms or get_stats the primary set and the type, uuid
\* and incoming indices hold what they held before; a lookup of an absent key
\* or a match on transient atoms inserts nothing.
C36_QueriesDoNotModify ==
    [][last'.op \in QueryOps => UNCHANGED store]_vars

\* get_node has looked up the concept "b", which is not stored, on a store
\* that holds atoms, and the store does not hold it afterwards
C36_Witness ==
    /\ last.op = "get_node" /\ last.key = Node(CONCEPT_NODE, <<"b">>)
    /\ last.ret = NULL
    /\ m_atoms # {}
    /\ ~contains(7)

\* match on the template link over the variable, never inserted, has found
\* the stored InheritanceLink
C36_WitnessTransientPattern ==
    /\ last.op = "match" /\ last.arg = 6
    /\ last.results # {}
    /\ ~contains(6) /\ ~contains(3)

\* ---- C37 -----------------------------------------------------------------
\* what find_links_containing(T, A) returns on the store as it is
Containing(T, A) ==
    {l \in get_atoms_by_type(T) : \E x \in Targets(heap[l]) : AtomEqual(heap, x, A)}

\* C37: the two link finders agree: after any sequence of mutations, for
\* every atom A contained in the store and every link type T,
\* find_links_to(T, A) and find_links_containing(T, A) return the same set
\* of links.
C37_FindersAgree ==
    /\ (last.op = "find_links_to" /\ contains(last.arg)) =>
          last.results = Containing(last.type, last.arg)
    /\ (last.op = "find_links_containing" /\ contains(last.arg)) =>
          last.results = get_incoming_by_type(last.arg, last.type)

\* the same when the handle asked about is one of the handles the stored
\* links of the type hold in their outgoing sequences, or occurs in none,
\* and no link was removed through a link over other objects
C37_FindersAgreeOnLinkedObjects ==
    \A A \in m_atoms, T \in {LIST_LINK, INHERITANCE_LINK} :
        ((\A l \in get_atoms_by_type(T) : \A x \in Targets(heap[l]) : AtomEqual(heap, x, A) => x = A)
           /\ get_incoming(A) \subseteq m_atoms)
          => get_incoming_by_type(A, T) = Containing(T, A)

\* ---- C38 -----------------------------------------------------------------
\* this step is add_atom(h) right after remove_atom(h) returned true, h
\* being the handle that was stored
RoundTripStep ==
    /\ last.op = "remove_atom" /\ last.ok /\ last.arg = last.ret
    /\ last'.op = "add_atom" /\ last'.arg = last.arg
Before == (CHOOSE r \in returned : TRUE).before

\* C38: if h is the handle stored, remove_atom(h) followed by add_atom(h)
\* returns h and restores the store exactly: contains, size,
\* get_atom(h.uuid), get_atoms_by_type and get_incoming of every atom answer
\* as before the removal.
C38_RoundTripRestores ==
    [][RoundTripStep => /\ last'.ret = last.arg
                        /\ Answers' = Before]_vars

\* the same, get_incoming left aside
C38_RoundTripRestoresButIncoming ==
    [][RoundTripStep => /\ last'.ret = last.arg
                        /\ [Answers' EXCEPT !.get_incoming = << >>]
                              = [Before EXCEPT !.get_incoming = << >>]]_vars

\* the same when, before the removal, no incoming set held a link that had
\* been removed
C38_RoundTripRestoresWithoutStaleEntries ==
    [][(RoundTripStep /\ \A x \in Handles : Before.get_incoming[x] \subseteq Before.atoms)
          => /\ last'.ret = last.arg
             /\ Answers' = Before]_vars

\* ---- C39 -----------------------------------------------------------------
\* the atoms held by the outgoing sequences of the atoms of S
Children(S) == UNION {Targets(heap[x]) \cap DOMAIN heap : x \in S}
\* the atoms k levels below the atoms of S
RECURSIVE Level(_, _)
Level(S, k) == IF k = 0 THEN S ELSE Level(Children(S), k - 1)
\* the atoms at any level from 1 to k below the atoms of S
RECURSIVE Below(_, _)
Below(S, k) == IF k = 0 THEN {} ELSE Children(S) \cup Below(Children(S), k - 1)

\* C39: the atom graph is acyclic by construction. Every non-null atom in a
\* link's outgoing sequence was constructed before the link and has a
\* strictly smaller uuid; no link contains itself, directly or transitively;
\* and a descent through outgoing sequences, as hash, operator== and
\* to_string make it, ends at nodes or empty links after at most as many
\* levels as there are atoms.
C39_AcyclicByConstruction ==
    \A l \in DOMAIN heap :
        /\ \A x \in Targets(heap[l]) : x < l
        /\ l \notin Below({l}, Cardinality(DOMAIN heap))
        /\ Level({l}, Cardinality(DOMAIN heap)) = {}

\* a link over a link over a node has been constructed
C39_Witness ==
    \E l \in DOMAIN heap :
        \E m \in Targets(heap[l]) \cap DOMAIN heap :
            /\ ~heap[m].is_node
            /\ \E n \in Targets(heap[m]) \cap DOMAIN heap : heap[n].is_node

\* ---- C40 -----------------------------------------------------------------
TensorOps == {"add_tensor_node", "add_tensor_link"}

\* C40: the tensor-enabled insertions keep the deduplication contract of
\* add_atom. The handle that add_tensor_node or add_tensor_link returns is the
\* atom stored for its key, so it is a member of the store, get_atom of its
\* uuid returns it, and it is the handle add_atom returned; a second call with
\* the same key therefore returns the same object as the first.
C40_TensorWrappersDeduplicate ==
    last.op \in TensorOps =>
        /\ last.ret \in m_atoms
        /\ get_atom(last.ret) = last.ret
        /\ last.ret = last.added

\* what the wrappers do keep: the store holds exactly one atom equal to the
\* returned one, it is the handle add_atom returned, and the returned handle
\* is itself the stored atom whenever no equal atom was stored before the call
C40_TensorWrappersStoreEqualAtom ==
    last.op \in TensorOps =>
        /\ Cardinality(SetFind(heap, m_atoms, last.ret)) = 1
        /\ last.added \in SetFind(heap, m_atoms, last.ret)
        /\ get_atom(last.added) = last.added

\* a tensor insertion has returned a handle other than the stored atom
C40_WitnessDuplicate ==
    /\ last.op \in TensorOps
    /\ last.added # last.ret
    /\ last.ret \notin m_atoms

====
